---- MODULE Spec2Model ----
(***************************************************************************)
(* A model of the .shp decoder of twpayne/go-shapefile: the io.Reader      *)
(* loop readFull, the 100-byte header parser, the byteSliceReader cursor,  *)
(* ReadSHPRecord, makeMultiPolygonEndss, ReadSHP and ScannerSHP.Scan.      *)
(* Streams are sequences of bytes (0..255); every decoder below works on   *)
(* the bytes, as the Go code does.                                         *)
(***************************************************************************)
EXTENDS Integers, Sequences, FiniteSets, TLC

VARIABLES
    r,            \* the io.Reader: its bytes, read offset and Read behaviour
    fileLength,   \* the fileLength / size argument
    options,      \* *ReadSHPOptions: [MaxParts, MaxPoints, MaxRecordSize]
    entry,        \* which entry point runs: "ReadSHP" or "ScannerSHP"
    pc,           \* "start", "loop" (ReadSHP RECORD loop), "scan", "done"
    header,       \* the *SHxHeader read at the start
    recordNumber, \* ReadSHP's loop counter
    records,      \* ReadSHP's records slice
    ret,          \* what ReadSHP returned: [shp, err, panic]
    scanner,      \* the *ScannerSHP: [scanRecords, err]
    scanned,      \* what the last ScannerSHP.Scan call returned: [record, err, panic]
    calls,        \* number of ScannerSHP.Scan calls made by the caller
    dbfR,         \* the io.Reader of the .dbf stream
    dbfOptions,   \* *ReadDBFOptions
    dbfEntry,     \* which DBF entry point runs: "ReadDBF" or "ScannerDBF"
    dbfPc,        \* "idle", "start", "records" (ReadDBF's loop), "scan", "done"
    dbfHeader,    \* the *DBFHeader
    fieldDescriptors, \* the []*DBFFieldDescriptor read after the header
    decoder,      \* the *encoding.Decoder of Character fields
    dbfRecords,   \* ReadDBF's records slice
    dbfRet,       \* what ReadDBF / NewScannerDBF returned: [dbf, err, panic]
    scannerDBF,   \* the *ScannerDBF: [scanRecords, err]
    scannedDBF,   \* what the last ScannerDBF.Scan returned: [record, err, panic]
    dbfCalls,     \* number of ScannerDBF.Scan calls made by the caller
    files,        \* the .dbf, .shp and .shx files: nil or the file's bytes
    asmOptions,   \* *ReadShapefileOptions: nil or [DBF, SHP]
    asmEntry,     \* "Read", "ReadFS", "ReadZipReader" or "ReadScanner"
    asmPc,        \* "idle", "start", "scan" (ReadScanner's loop), "done"
    shxR,         \* the io.Reader of the .shx stream
    scannerSHX,   \* the *ScannerSHX: [header, scanRecords, err]
    shxRecords,   \* ReadScanner's shx.Records
    shapeScanner, \* the *Scanner: [scanRecords, err], err the joined errors
    asmRet,       \* what the entry point returned: [shapefile, err, panic]
    cursor,       \* a *byteSliceReader a caller reads from directly: [rest, err]
    flat,         \* the caller's flat coordinate buffer
    lastRead,     \* the last read of the cursor: its operation, arguments and result
    reads,        \* number of reads of the cursor
    ringArgs,     \* the arguments of makeMultiPolygonEndss: [layout, flatCoords, ends]
    ringRet,      \* what makeMultiPolygonEndss returned: [endss, err, panic], or nil
    goroutines,   \* the accesses each goroutine of a Scanner method has yet to make
    shared        \* the method, the variables its goroutines share, the accesses made

shpVars == <<r, fileLength, options, entry, pc, header, recordNumber, records,
             ret, scanner, scanned, calls>>
dbfVars == <<dbfR, dbfOptions, dbfEntry, dbfPc, dbfHeader, fieldDescriptors,
             decoder, dbfRecords, dbfRet, scannerDBF, scannedDBF, dbfCalls>>
asmVars == <<files, asmOptions, asmEntry, asmPc, shxR, scannerSHX, shxRecords,
             shapeScanner, asmRet>>
fnVars == <<cursor, flat, lastRead, reads, ringArgs, ringRet, goroutines, shared>>
vars == <<shpVars, dbfVars, asmVars, fnVars>>

\* A nil error. Errors are strings, by their message.
Nil == "nil"

\* Pointers (and the interface geom.T): the nil pointer, a pointer to x, and
\* the value a pointer points to.
NilPtr == <<>>
Ptr(x) == <<x>>
Deref(p) == p[1]

---------------------------------------------------------------------------
(* Program constants.                                                      *)

headerSize == 100
fileCode == 9994
version == 1000

ShapeTypeNull == 0
ShapeTypePoint == 1
ShapeTypePolyLine == 3
ShapeTypePolygon == 5
ShapeTypeMultiPoint == 8
ShapeTypePointZ == 11
ShapeTypePolyLineZ == 13
ShapeTypePolygonZ == 15
ShapeTypeMultiPointZ == 18
ShapeTypePointM == 21
ShapeTypePolyLineM == 23
ShapeTypePolygonM == 25
ShapeTypeMultiPointM == 28
ShapeTypeMultiPatch == 31

validShapeTypes ==
    {ShapeTypeNull, ShapeTypePoint, ShapeTypePolyLine, ShapeTypePolygon,
     ShapeTypeMultiPoint, ShapeTypePointM, ShapeTypePolyLineM, ShapeTypePolygonM,
     ShapeTypeMultiPointM, ShapeTypePointZ, ShapeTypePolyLineZ, ShapeTypePolygonZ,
     ShapeTypeMultiPointZ, ShapeTypeMultiPatch}

unsupportedShapeTypes == {ShapeTypeMultiPatch}

\* The errors of the decoder, by their message.
EOF == "EOF"
ErrUnexpectedEOF == "unexpected EOF"
errUnexpectedEndOfData == "unexpected end of data"
errInvalidPart == "invalid part"

---------------------------------------------------------------------------
(* Bytes, integers and floats on the wire.                                 *)

Min(a, b) == IF a < b THEN a ELSE b

\* Go's integer division truncates toward zero.
GoDiv(a, b) == IF a >= 0 THEN a \div b ELSE -((-a) \div b)

\* s[lo:hi] of a Go slice, 0-based, as a sequence.
Slice(s, lo, hi) == SubSeq(s, lo + 1, hi)

\* binary.BigEndian.Uint32 and binary.LittleEndian.Uint32 of 4 bytes.
BigEndianUint32(b) == ((b[1] * 256 + b[2]) * 256 + b[3]) * 256 + b[4]
LittleEndianUint32(b) == ((b[4] * 256 + b[3]) * 256 + b[2]) * 256 + b[1]

\* A float64 is [nan, v]: NaN, or the number v. The arithmetic of the model's
\* floats is exact: they are small integers, which float64 adds, subtracts and
\* multiplies without rounding.
NaN == [nan |-> TRUE, v |-> 0]
F(v) == [nan |-> FALSE, v |-> v]
FAdd(a, b) == IF a.nan \/ b.nan THEN NaN ELSE F(a.v + b.v)
FSub(a, b) == IF a.nan \/ b.nan THEN NaN ELSE F(a.v - b.v)
FMul(a, b) == IF a.nan \/ b.nan THEN NaN ELSE F(a.v * b.v)
FIsZero(a) == ~a.nan /\ a.v = 0
FIsNeg(a) == ~a.nan /\ a.v < 0

RECURSIVE Pow2(_)
Pow2(n) == IF n = 0 THEN 1 ELSE 2 * Pow2(n - 1)

\* math.Float64frombits(binary.LittleEndian.Uint64(b)) of 8 bytes, IEEE 754
\* binary64: sign bit, 11 exponent bits, 52 fraction bits. It is defined on
\* the bit patterns of zero, of NaN and of the integers whose fraction lies
\* in the four highest fraction bits; no other pattern is read in this model
\* (TLC reports one that is).
Float64frombits(b) ==
    LET sign == b[8] \div 128
        exp == (b[8] % 128) * 16 + b[7] \div 16
        frac4 == b[7] % 16
        lowZero == \A i \in 1..6 : b[i] = 0
        num == 16 + frac4
        sh == exp - 1027
        mag == IF sh >= 0 THEN num * Pow2(sh) ELSE num \div Pow2(-sh)
    IN  CASE exp = 2047 /\ (frac4 # 0 \/ ~lowZero) -> NaN
          [] exp = 0 /\ frac4 = 0 /\ lowZero -> F(0)
          [] exp \in 1023..1040 /\ lowZero
               /\ (sh < 0 => num % Pow2(-sh) = 0) ->
                 F(IF sign = 1 THEN -mag ELSE mag)

---------------------------------------------------------------------------
(* io.Reader and readFull.                                                 *)

\* r.Read(p) with len(p) = n > 0, for a reader over r.data at offset r.off
\* that hands out at most r.chunk bytes per call and reports io.EOF either
\* together with the last bytes (r.eofWithData) or on the next call, both of
\* which the io.Reader contract allows.
Read(rd, n) ==
    LET avail == Len(rd.data) - rd.off
        got == Min(Min(n, rd.chunk), avail)
    IN  [n |-> got,
         err |-> IF avail = 0 \/ (rd.eofWithData /\ got = avail) THEN EOF ELSE Nil,
         r |-> [rd EXCEPT !.off = rd.off + got]]

\* readFull(r, data) with len(data) = n: [err, r]; on a nil error the n bytes
\* are those before the new offset.
RECURSIVE readFull(_, _)
readFull(rd, n) ==
    LET c == Read(rd, n)
    IN  CASE c.err = EOF /\ c.n = n -> [err |-> Nil, r |-> c.r]
          [] c.err # Nil -> [err |-> c.err, r |-> c.r]
          [] c.n = 0 -> [err |-> ErrUnexpectedEOF, r |-> c.r]
          [] c.n < n -> readFull(c.r, n - c.n)
          [] OTHER -> [err |-> Nil, r |-> c.r]

\* The n bytes a successful readFull has stored, given the reader after it.
lastBytes(rd, n) == Slice(rd.data, rd.off - n, rd.off)

\* bufio.NewReader(reader): its Read returns the buffered bytes with a nil
\* error and io.EOF only with zero bytes.
bufioNewReader(rd) == [rd EXCEPT !.eofWithData = FALSE]

---------------------------------------------------------------------------
(* The 100-byte header.                                                    *)

LayoutOf_ZWithoutM(shapeType) ==
    CASE shapeType \in {ShapeTypePoint, ShapeTypeMultiPoint, ShapeTypePolyLine,
                        ShapeTypePolygon} -> "XY"
      [] shapeType \in {ShapeTypePointM, ShapeTypeMultiPointM, ShapeTypePolyLineM,
                        ShapeTypePolygonM, ShapeTypePointZ, ShapeTypeMultiPointZ,
                        ShapeTypePolyLineZ, ShapeTypePolygonZ} -> "XYM"
      [] OTHER -> "NoLayout"

\* geom.Layout of a shape type, as both switches on the shape type derive it.
LayoutOf(shapeType) ==
    CASE shapeType \in {ShapeTypePoint, ShapeTypeMultiPoint, ShapeTypePolyLine,
                        ShapeTypePolygon} -> "XY"
      [] shapeType \in {ShapeTypePointM, ShapeTypeMultiPointM, ShapeTypePolyLineM,
                        ShapeTypePolygonM} -> "XYM"
      [] shapeType \in {ShapeTypePointZ, ShapeTypeMultiPointZ, ShapeTypePolyLineZ,
                        ShapeTypePolygonZ} -> "XYZM"
      [] OTHER -> "NoLayout"

\* geom.Layout.Stride, MIndex and ZIndex.
Stride(layout) ==
    CASE layout = "XY" -> 2 [] layout = "XYM" -> 3 [] layout = "XYZM" -> 4
      [] OTHER -> 0
MIndex(layout) == CASE layout = "XYM" -> 2 [] layout = "XYZM" -> 3 [] OTHER -> -1
ZIndex(layout) == CASE layout = "XYZM" -> 2 [] OTHER -> -1

\* geom.NewBounds(layout).Set(...): the minima, then the maxima.
NewBounds(layout, min, max) == Ptr([layout |-> layout, min |-> min, max |-> max])

parseSHxHeaderChecks_VersionFirst(data, fileLen) ==
    IF Len(data) # headerSize THEN "invalid header length"
    ELSE IF BigEndianUint32(Slice(data, 0, 4)) # fileCode THEN "invalid file code"
    ELSE IF LittleEndianUint32(Slice(data, 28, 32)) # version THEN "invalid header version"
    ELSE IF 2 * BigEndianUint32(Slice(data, 24, 28)) # fileLen THEN "invalid file length"
    ELSE IF LittleEndianUint32(Slice(data, 32, 36)) \notin validShapeTypes
         THEN "invalid shape type"
    ELSE IF LittleEndianUint32(Slice(data, 32, 36)) \in unsupportedShapeTypes
         THEN "unsupported shape type"
    ELSE Nil

\* The checks of parseSHxHeader(data, fileLength), in the order of the code:
\* the error of the first one that fails, or Nil.
parseSHxHeaderChecks(data, fileLen) ==
    IF Len(data) # headerSize THEN "invalid header length"
    ELSE IF BigEndianUint32(Slice(data, 0, 4)) # fileCode THEN "invalid file code"
    ELSE IF 2 * BigEndianUint32(Slice(data, 24, 28)) # fileLen THEN "invalid file length"
    ELSE IF LittleEndianUint32(Slice(data, 28, 32)) # version THEN "invalid header version"
    ELSE IF LittleEndianUint32(Slice(data, 32, 36)) \notin validShapeTypes
         THEN "invalid shape type"
    ELSE IF LittleEndianUint32(Slice(data, 32, 36)) \in unsupportedShapeTypes
         THEN "unsupported shape type"
    ELSE Nil

\* The float64s of the header may be of any magnitude, so the header's
\* floats are kept as their IEEE 754 bit patterns: 8 bytes, the most
\* significant (sign and exponent) first. Float64Bits is
\* math.Float64frombits(binary.LittleEndian.Uint64(b)) of 8 bytes.
Float64Bits(b) == <<b[8], b[7], b[6], b[5], b[4], b[3], b[2], b[1]>>

\* math.Inf(sign)
Inf(sign) ==
    IF sign >= 0 THEN <<127, 240, 0, 0, 0, 0, 0, 0>> ELSE <<255, 240, 0, 0, 0, 0, 0, 0>>

\* x is a NaN: all exponent bits set and a fraction other than 0.
IsNaN64(x) ==
    /\ x[1] % 128 = 127
    /\ x[2] >= 240
    /\ (x[2] % 16 # 0 \/ \E i \in 3..8 : x[i] # 0)

\* The bits of the float64 constant 1e38, 0x47D2CED32A16A1B1.
Bits1e38 == <<71, 210, 206, 211, 42, 22, 161, 177>>

\* The magnitude of x (its bits without the sign), and the order of two
\* magnitudes, which is the order of their bits.
Magnitude(x) == [x EXCEPT ![1] = x[1] % 128]
MagnitudeGreater(x, y) ==
    \E i \in 1..8 : (\A j \in 1..(i - 1) : x[j] = y[j]) /\ x[i] > y[i]

NoData_Below(x) ==
    ~IsNaN64(x) /\ x[1] >= 128 /\ MagnitudeGreater(Magnitude(x), Bits1e38)

\* NoData(x): x <= -1e38, which is false of a NaN.
NoData(x) ==
    /\ ~IsNaN64(x)
    /\ x[1] >= 128
    /\ (Magnitude(x) = Bits1e38 \/ MagnitudeGreater(Magnitude(x), Bits1e38))

\* The no-data normalisation of a minimum and of a maximum.
NoDataMin(x) == IF NoData(x) THEN Inf(1) ELSE x
NoDataMax(x) == IF NoData(x) THEN Inf(-1) ELSE x

\* The bounds of parseSHxHeader: nil for the Null shape type, else the
\* minima and maxima of the shape type's layout, no-data values normalised.
headerBounds(shapeType, minX, minY, maxX, maxY, minZ, maxZ, minM, maxM) ==
    CASE LayoutOf(shapeType) = "XY" ->
           NewBounds("XY", <<NoDataMin(minX), NoDataMin(minY)>>,
                           <<NoDataMax(maxX), NoDataMax(maxY)>>)
      [] LayoutOf(shapeType) = "XYM" ->
           NewBounds("XYM", <<NoDataMin(minX), NoDataMin(minY), NoDataMin(minM)>>,
                            <<NoDataMax(maxX), NoDataMax(maxY), NoDataMax(maxM)>>)
      [] LayoutOf(shapeType) = "XYZM" ->
           NewBounds("XYZM",
               <<NoDataMin(minX), NoDataMin(minY), NoDataMin(minZ), NoDataMin(minM)>>,
               <<NoDataMax(maxX), NoDataMax(maxY), NoDataMax(maxZ), NoDataMax(maxM)>>)
      [] OTHER -> NilPtr

\* parseSHxHeader(data, fileLength): [header, err].
parseSHxHeader(data, fileLen) ==
    LET err == parseSHxHeaderChecks(data, fileLen)
    IN  IF err # Nil THEN [header |-> NilPtr, err |-> err]
        ELSE [header |->
                 Ptr([ShapeType |-> LittleEndianUint32(Slice(data, 32, 36)),
                      Bounds |-> headerBounds(LittleEndianUint32(Slice(data, 32, 36)),
                                    Float64Bits(Slice(data, 36, 44)),
                                    Float64Bits(Slice(data, 44, 52)),
                                    Float64Bits(Slice(data, 52, 60)),
                                    Float64Bits(Slice(data, 60, 68)),
                                    Float64Bits(Slice(data, 68, 76)),
                                    Float64Bits(Slice(data, 76, 84)),
                                    Float64Bits(Slice(data, 84, 92)),
                                    Float64Bits(Slice(data, 92, 100)))]),
              err |-> Nil]

\* readSHxHeader(r, fileLength): [header, err, r].
readSHxHeader(rd, fileLen) ==
    IF fileLen < headerSize THEN [header |-> NilPtr, err |-> "file too short", r |-> rd]
    ELSE LET f == readFull(rd, headerSize)
         IN  IF f.err # Nil THEN [header |-> NilPtr, err |-> f.err, r |-> f.r]
             ELSE LET p == parseSHxHeader(lastBytes(f.r, headerSize), fileLen)
                  IN  [header |-> p.header, err |-> p.err, r |-> f.r]

---------------------------------------------------------------------------
(* byteSliceReader: the cursor over one record's content. A reader is      *)
(* [rest, err]; an operation yields [r, v, panic], and those that write a  *)
(* caller's flat coordinate buffer yield [r, fc, panic]. panic is TRUE     *)
(* when the Go code indexes a slice outside its bounds.                    *)

newByteSliceReader(data) == [rest |-> data, err |-> Nil]

\* An Err() that never reports the error of the cursor.
Err_AlwaysNil(rd) == Nil

Err(rd) == rd.err

\* readUint32 without the test of the error.
readUint32_NoLatch(rd) ==
    IF Len(rd.rest) < 4
    THEN [r |-> [rd EXCEPT !.err = errUnexpectedEndOfData], v |-> 0, panic |-> FALSE]
    ELSE [r |-> [rd EXCEPT !.rest = Slice(rd.rest, 4, Len(rd.rest))],
          v |-> LittleEndianUint32(Slice(rd.rest, 0, 4)), panic |-> FALSE]

readUint32(rd) ==
    IF rd.err # Nil THEN [r |-> rd, v |-> 0, panic |-> FALSE]
    ELSE IF Len(rd.rest) < 4
    THEN [r |-> [rd EXCEPT !.err = errUnexpectedEndOfData], v |-> 0, panic |-> FALSE]
    ELSE [r |-> [rd EXCEPT !.rest = Slice(rd.rest, 4, Len(rd.rest))],
          v |-> LittleEndianUint32(Slice(rd.rest, 0, 4)), panic |-> FALSE]

readFloat64Pair(rd) ==
    IF rd.err # Nil THEN [r |-> rd, v |-> <<F(0), F(0)>>, panic |-> FALSE]
    ELSE IF Len(rd.rest) < 16
    THEN [r |-> [rd EXCEPT !.err = errUnexpectedEndOfData],
          v |-> <<F(0), F(0)>>, panic |-> FALSE]
    ELSE [r |-> [rd EXCEPT !.rest = Slice(rd.rest, 16, Len(rd.rest))],
          v |-> <<Float64frombits(Slice(rd.rest, 0, 8)),
                  Float64frombits(Slice(rd.rest, 8, 16))>>,
          panic |-> FALSE]

\* readFloat64s(n): nil is the empty sequence.
readFloat64s(rd, n) ==
    IF rd.err # Nil THEN [r |-> rd, v |-> <<>>, panic |-> FALSE]
    ELSE IF Len(rd.rest) < 8 * n
    THEN [r |-> [rd EXCEPT !.err = errUnexpectedEndOfData], v |-> <<>>, panic |-> FALSE]
    ELSE [r |-> [rd EXCEPT !.rest = Slice(rd.rest, 8 * n, Len(rd.rest))],
          v |-> [i \in 1..n |-> Float64frombits(Slice(rd.rest, 8 * (i - 1), 8 * i))],
          panic |-> FALSE]

\* The loop of readOrdinates from iteration i on: [fc, panic].
RECURSIVE readOrdinatesLoop(_, _, _, _, _, _)
readOrdinatesLoop(rest, fc, i, n, stride, index) ==
    IF i >= n THEN [fc |-> fc, panic |-> FALSE]
    ELSE LET j == i * stride + index
         IN  IF j < 0 \/ j >= Len(fc) THEN [fc |-> fc, panic |-> TRUE]
             ELSE readOrdinatesLoop(rest,
                     [fc EXCEPT ![j + 1] = Float64frombits(Slice(rest, 8 * i, 8 * i + 8))],
                     i + 1, n, stride, index)

readOrdinates(rd, fc, n, layout, index) ==
    IF rd.err # Nil THEN [r |-> rd, fc |-> fc, panic |-> FALSE]
    ELSE IF Len(rd.rest) < 8 * n
    THEN [r |-> [rd EXCEPT !.err = errUnexpectedEndOfData], fc |-> fc, panic |-> FALSE]
    ELSE LET l == readOrdinatesLoop(rd.rest, fc, 0, n, Stride(layout), index)
         IN  IF l.panic THEN [r |-> rd, fc |-> l.fc, panic |-> TRUE]
             ELSE [r |-> [rd EXCEPT !.rest = Slice(rd.rest, 8 * n, Len(rd.rest))],
                   fc |-> l.fc, panic |-> FALSE]

\* The loop of readXYs from iteration i on: [fc, panic].
RECURSIVE readXYsLoop(_, _, _, _, _)
readXYsLoop(rest, fc, i, n, stride) ==
    IF i >= n THEN [fc |-> fc, panic |-> FALSE]
    ELSE LET j == i * stride
         IN  IF j + 1 >= Len(fc) THEN [fc |-> fc, panic |-> TRUE]
             ELSE readXYsLoop(rest,
                     [[fc EXCEPT ![j + 1] = Float64frombits(Slice(rest, 16 * i, 16 * i + 8))]
                         EXCEPT ![j + 2] = Float64frombits(Slice(rest, 16 * i + 8, 16 * i + 16))],
                     i + 1, n, stride)

readXYs(rd, fc, n, layout) ==
    IF rd.err # Nil THEN [r |-> rd, fc |-> fc, panic |-> FALSE]
    ELSE IF Len(rd.rest) < 16 * n
    THEN [r |-> [rd EXCEPT !.err = errUnexpectedEndOfData], fc |-> fc, panic |-> FALSE]
    ELSE LET l == readXYsLoop(rd.rest, fc, 0, n, Stride(layout))
         IN  IF l.panic THEN [r |-> rd, fc |-> l.fc, panic |-> TRUE]
             ELSE [r |-> [rd EXCEPT !.rest = Slice(rd.rest, 16 * n, Len(rd.rest))],
                   fc |-> l.fc, panic |-> FALSE]

\* The loop of readEnds from iteration i on: [kind, ends], kind one of
\* "ok", "invalid" (a part beyond maxPart) and "panic".
RECURSIVE readEndsLoop(_, _, _, _, _, _)
readEndsLoop(rest, i, numParts, stride, maxPart, ends) ==
    IF i >= numParts THEN [kind |-> "ok", ends |-> ends]
    ELSE IF 4 * i + 4 > Len(rest) THEN [kind |-> "panic", ends |-> ends]
    ELSE LET part == stride * LittleEndianUint32(Slice(rest, 4 * i, 4 * i + 4))
         IN  IF part > maxPart THEN [kind |-> "invalid", ends |-> ends]
             ELSE readEndsLoop(rest, i + 1, numParts, stride, maxPart, Append(ends, part))

\* readEnds(layout, numParts, numPoints). A short buffer sets the error and
\* the function goes on (there is no return after it).
readEnds(rd, layout, numParts, numPoints) ==
    IF rd.err # Nil THEN [r |-> rd, v |-> <<>>, panic |-> FALSE]
    ELSE
    LET r1 == IF Len(rd.rest) < 4 * numParts
              THEN [rd EXCEPT !.err = errUnexpectedEndOfData] ELSE rd
    IN  IF Len(rd.rest) < 4 THEN [r |-> r1, v |-> <<>>, panic |-> TRUE]
        ELSE IF LittleEndianUint32(Slice(rd.rest, 0, 4)) # 0
        THEN [r |-> [r1 EXCEPT !.err = errInvalidPart], v |-> <<>>, panic |-> FALSE]
        ELSE
        LET stride == Stride(layout)
            maxPart == stride * numPoints
            l == readEndsLoop(rd.rest, 1, numParts, stride, maxPart, <<>>)
        IN  CASE l.kind = "panic" -> [r |-> r1, v |-> <<>>, panic |-> TRUE]
              [] l.kind = "invalid" ->
                   [r |-> [r1 EXCEPT !.err = errInvalidPart], v |-> <<>>, panic |-> FALSE]
              [] OTHER ->
                   IF 4 * numParts > Len(rd.rest)
                   THEN [r |-> r1, v |-> <<>>, panic |-> TRUE]
                   ELSE [r |-> [r1 EXCEPT !.rest = Slice(rd.rest, 4 * numParts, Len(rd.rest))],
                         v |-> Append(l.ends, maxPart), panic |-> FALSE]

---------------------------------------------------------------------------
(* The ring orientation resolver.                                          *)

\* The loop of doubleArea from index i on, sum so far acc: [v, panic].
RECURSIVE doubleAreaLoop(_, _, _, _, _)
doubleAreaLoop(flatCoords, i, end, stride, acc) ==
    IF i >= end THEN [v |-> acc, panic |-> FALSE]
    ELSE IF i - stride < 0 \/ i + 1 >= Len(flatCoords) \/ stride <= 0
    THEN [v |-> acc, panic |-> TRUE]
    ELSE doubleAreaLoop(flatCoords, i + stride, end, stride,
            FAdd(acc, FMul(FSub(flatCoords[i + 2], flatCoords[i + 2 - stride]),
                           FAdd(flatCoords[i + 1], flatCoords[i + 1 - stride]))))

doubleArea_SkipsLast(flatCoords, offset, end, stride) ==
    doubleAreaLoop(flatCoords, offset + stride, end - stride, stride, F(0))

\* The area with X and Y exchanged: the same magnitude, the opposite sign.
doubleArea_Swapped(flatCoords, offset, end, stride) ==
    LET a == doubleAreaLoop(flatCoords, offset + stride, end, stride, F(0))
    IN  [a EXCEPT !.v = FSub(F(0), a.v)]

\* doubleArea(flatCoords, offset, end, stride): [v, panic].
doubleArea(flatCoords, offset, end, stride) ==
    doubleAreaLoop(flatCoords, offset + stride, end, stride, F(0))

\* ends[:hi]: every group taken from the first ring on.
EndsSlice_FromStart(ends, lo, hi) == Slice(ends, 0, hi)

\* ends[lo:hi] of the ends slice.
EndsSlice(ends, lo, hi) == Slice(ends, lo, hi)

\* The loop of makeMultiPolygonEndss from ring i (0-based) on:
\* [endss, err, panic].
RECURSIVE makeMultiPolygonEndssLoop(_, _, _, _, _, _, _)
makeMultiPolygonEndssLoop(flatCoords, ends, stride, i, offset, polygonOffset, endss) ==
    IF i >= Len(ends)
    THEN [endss |-> IF Len(ends) > 0
                    THEN Append(endss, EndsSlice(ends, polygonOffset, Len(ends)))
                    ELSE endss,
          err |-> Nil, panic |-> FALSE]
    ELSE
    LET end == ends[i + 1]
    IN  IF stride = 0 THEN [endss |-> <<>>, err |-> Nil, panic |-> TRUE]
        ELSE IF GoDiv(end - offset, stride) < 4
        THEN [endss |-> <<>>, err |-> "too few points in ring", panic |-> FALSE]
        ELSE
        LET a == doubleArea(flatCoords, offset, end, stride)
        IN  CASE a.panic -> [endss |-> <<>>, err |-> Nil, panic |-> TRUE]
              [] FIsZero(a.v) ->
                   [endss |-> <<>>, err |-> "zero area ring", panic |-> FALSE]
              [] i # 0 /\ FIsNeg(a.v) ->
                   makeMultiPolygonEndssLoop(flatCoords, ends, stride, i + 1, end, i,
                       Append(endss, EndsSlice(ends, polygonOffset, i)))
              [] OTHER ->
                   makeMultiPolygonEndssLoop(flatCoords, ends, stride, i + 1, end,
                       polygonOffset, endss)

\* All rings in one group, whatever their areas.
makeMultiPolygonEndss_OneGroup(layout, flatCoords, ends) ==
    LET res == makeMultiPolygonEndssLoop(flatCoords, ends, Stride(layout), 0, 0, 0, <<>>)
    IN  [res EXCEPT !.endss = IF @ = <<>> THEN <<>> ELSE <<ends>>]

\* makeMultiPolygonEndss(layout, flatCoords, ends): [endss, err, panic].
makeMultiPolygonEndss(layout, flatCoords, ends) ==
    makeMultiPolygonEndssLoop(flatCoords, ends, Stride(layout), 0, 0, 0, <<>>)

---------------------------------------------------------------------------
(* ReadSHPRecord.                                                          *)

PointTypes == {ShapeTypePoint, ShapeTypePointM, ShapeTypePointZ}
MultiPointTypes == {ShapeTypeMultiPoint, ShapeTypeMultiPointM, ShapeTypeMultiPointZ}
PolyLineTypes == {ShapeTypePolyLine, ShapeTypePolyLineM, ShapeTypePolyLineZ}
PolygonTypes == {ShapeTypePolygon, ShapeTypePolygonM, ShapeTypePolygonZ}

expectedContentLength_NoPartEntries(shapeType, layout, numParts, numPoints) ==
    4 + 8 * 4
    + (IF shapeType \in {ShapeTypePolyLine, ShapeTypePolyLineM, ShapeTypePolyLineZ,
                         ShapeTypePolygon, ShapeTypePolygonM, ShapeTypePolygonZ}
       THEN 4 ELSE 0)
    + 4
    + (CASE layout = "XY" -> 8 * 2 * numPoints
         [] layout = "XYM" -> 8 * 2 * numPoints + 8 * 2 + 8 * numPoints
         [] layout = "XYZM" ->
              8 * 2 * numPoints + 8 * 2 + 8 * numPoints + 8 * 2 + 8 * numPoints
         [] OTHER -> 0)

expectedContentLength_NoZBlock(shapeType, layout, numParts, numPoints) ==
    4 + 8 * 4
    + (IF shapeType \in {ShapeTypePolyLine, ShapeTypePolyLineM, ShapeTypePolyLineZ,
                         ShapeTypePolygon, ShapeTypePolygonM, ShapeTypePolygonZ}
       THEN 4 + 4 * numParts ELSE 0)
    + 4
    + (CASE layout = "XY" -> 8 * 2 * numPoints
         [] layout = "XYM" -> 8 * 2 * numPoints + 8 * 2 + 8 * numPoints
         [] layout = "XYZM" -> 8 * 2 * numPoints + 8 * 2 + 8 * numPoints
         [] OTHER -> 0)

\* expectedContentLength when it is compared with contentLength for the
\* MultiPoint, PolyLine and Polygon families (and for any shape type that is
\* neither Null nor a Point): 4 for the shape type, 8 * 4 for the box,
\* 4 + 4 * numParts for the part table, 4 for the point count, then the
\* coordinate blocks of the layout.
expectedContentLength(shapeType, layout, numParts, numPoints) ==
    4 + 8 * 4
    + (IF shapeType \in PolyLineTypes \cup PolygonTypes THEN 4 + 4 * numParts ELSE 0)
    + 4
    + (CASE layout = "XY" -> 8 * 2 * numPoints
         [] layout = "XYM" -> 8 * 2 * numPoints + 8 * 2 + 8 * numPoints
         [] layout = "XYZM" ->
              8 * 2 * numPoints + 8 * 2 + 8 * numPoints + 8 * 2 + 8 * numPoints
         [] OTHER -> 0)

OverMax_Never(opts, field, n) == FALSE

\* options != nil && options.MaxX != 0 && n > options.MaxX
OverMax(opts, field, n) ==
    opts # NilPtr /\ Deref(opts)[field] # 0 /\ n > Deref(opts)[field]

\* make([]float64, n)
MakeFloat64s(n) == [i \in 1..n |-> F(0)]

Failed(err, rd) == [record |-> NilPtr, err |-> err, r |-> rd, panic |-> FALSE]
Panicked(rd) == [record |-> NilPtr, err |-> Nil, r |-> rd, panic |-> TRUE]

\* The box, the part count (PolyLine and Polygon families) and the point
\* count, read from the cursor b: [min, max, numParts, numPoints, r].
readBoxAndCounts(b, hasParts) ==
    LET p1 == readFloat64Pair(b)
        p2 == readFloat64Pair(p1.r)
        np == IF hasParts THEN readUint32(p2.r) ELSE [r |-> p2.r, v |-> 0, panic |-> FALSE]
        npt == readUint32(np.r)
    IN  [min |-> p1.v, max |-> p2.v, numParts |-> np.v, numPoints |-> npt.v, r |-> npt.r]

\* The part table and the coordinate blocks, read from the cursor b in the
\* order of the layout: the ends, the X,Y pairs, then for XYM the M range
\* and the M values, and for XYZM the Z range and values followed by the M
\* range and values: [r, ends, flatCoords, z, m, panic].
readCoordinates(b, layout, hasParts, numParts, numPoints) ==
    LET en == IF hasParts THEN readEnds(b, layout, numParts, numPoints)
              ELSE [r |-> b, v |-> <<>>, panic |-> FALSE]
        xy == readXYs(en.r, MakeFloat64s(Stride(layout) * numPoints), numPoints, layout)
        m1 == readFloat64Pair(xy.r)
        mo == readOrdinates(m1.r, xy.fc, numPoints, layout, MIndex(layout))
        z1 == readFloat64Pair(xy.r)
        zo == readOrdinates(z1.r, xy.fc, numPoints, layout, ZIndex(layout))
        zm1 == readFloat64Pair(zo.r)
        zmo == readOrdinates(zm1.r, zo.fc, numPoints, layout, MIndex(layout))
    IN  CASE layout = "XYM" ->
               [r |-> mo.r, ends |-> en.v, flatCoords |-> mo.fc, z |-> <<>>, m |-> m1.v,
                panic |-> en.panic \/ xy.panic \/ mo.panic]
          [] layout = "XYZM" ->
               [r |-> zmo.r, ends |-> en.v, flatCoords |-> zmo.fc, z |-> z1.v, m |-> zm1.v,
                panic |-> en.panic \/ xy.panic \/ zo.panic \/ zmo.panic]
          [] OTHER ->
               [r |-> xy.r, ends |-> en.v, flatCoords |-> xy.fc, z |-> <<>>, m |-> <<>>,
                panic |-> en.panic \/ xy.panic]

\* The end of ReadSHPRecord: the bounds, the check of the cursor's error
\* and the geometry, from the counts c and the coordinates k read before.
ReadSHPRecordGeom(rd, recNumber, contentLength, shapeType, layout, c, k) ==
    LET bounds ==
            CASE layout = "XY" ->
                   NewBounds("XY", <<c.min[1], c.min[2]>>, <<c.max[1], c.max[2]>>)
              [] layout = "XYM" ->
                   NewBounds("XYM", <<c.min[1], c.min[2], k.m[1]>>,
                                    <<c.max[1], c.max[2], k.m[2]>>)
              [] layout = "XYZM" ->
                   NewBounds("XYZM", <<c.min[1], c.min[2], k.z[1], k.m[1]>>,
                                     <<c.max[1], c.max[2], k.z[2], k.m[2]>>)
              [] OTHER -> NilPtr
        rec(g) == Ptr([Number |-> recNumber, ContentLength |-> contentLength,
                       ShapeType |-> shapeType, Bounds |-> bounds, Geom |-> g])
    IN  IF k.panic THEN Panicked(rd)
        ELSE IF Err(k.r) # Nil THEN Failed(Err(k.r), rd)
        ELSE
        CASE shapeType \in MultiPointTypes ->
               [record |-> rec(Ptr([type |-> "MultiPoint", layout |-> layout,
                                    flatCoords |-> k.flatCoords])),
                err |-> Nil, r |-> rd, panic |-> FALSE]
          [] shapeType \in PolyLineTypes ->
               [record |-> rec(Ptr([type |-> "MultiLineString", layout |-> layout,
                                    flatCoords |-> k.flatCoords, ends |-> k.ends])),
                err |-> Nil, r |-> rd, panic |-> FALSE]
          [] shapeType \in PolygonTypes ->
               LET e == makeMultiPolygonEndss(layout, k.flatCoords, k.ends)
               IN  IF e.panic THEN Panicked(rd)
                   ELSE IF e.err # Nil THEN Failed(e.err, rd)
                   ELSE [record |-> rec(Ptr([type |-> "MultiPolygon", layout |-> layout,
                                             flatCoords |-> k.flatCoords,
                                             endss |-> e.endss])),
                         err |-> Nil, r |-> rd, panic |-> FALSE]
          [] OTHER ->
               [record |-> rec(NilPtr), err |-> Nil, r |-> rd, panic |-> FALSE]

\* The checks of ReadSHPRecord on the counts c: the part count, the maxima
\* and the content length the counts require.
ReadSHPRecordCounts(rd, opts, recNumber, contentLength, shapeType, layout, c) ==
    LET hasParts == shapeType \in PolyLineTypes \cup PolygonTypes
    IN  IF hasParts /\ c.numParts = 0 THEN Failed("invalid number of parts", rd)
        ELSE IF hasParts /\ OverMax(opts, "MaxParts", c.numParts)
        THEN Failed("too many parts", rd)
        ELSE IF OverMax(opts, "MaxPoints", c.numPoints) THEN Failed("too many points", rd)
        ELSE IF contentLength
                   # expectedContentLength(shapeType, layout, c.numParts, c.numPoints)
        THEN Failed("invalid content length", rd)
        ELSE ReadSHPRecordGeom(rd, recNumber, contentLength, shapeType, layout, c,
                 readCoordinates(c.r, layout, hasParts, c.numParts, c.numPoints))

\* The part of ReadSHPRecord after the Point family's return: the record
\* content is in the cursor b (the shape type already read).
ReadSHPRecordMulti(rd, opts, recNumber, contentLength, shapeType, layout, b) ==
    ReadSHPRecordCounts(rd, opts, recNumber, contentLength, shapeType, layout,
        readBoxAndCounts(b, shapeType \in PolyLineTypes \cup PolygonTypes))

\* ReadSHPRecord once the content is read: st is the result of reading the
\* shape type from the cursor over the content, rd the reader after it.
ReadSHPRecordShape(rd, opts, recNumber, contentLength, st) ==
    LET shapeType == st.v
        layout == LayoutOf(st.v)
    IN  IF shapeType = ShapeTypeNull
        THEN IF contentLength # 4 THEN Failed("invalid content length", rd)
             ELSE [record |-> Ptr([Number |-> recNumber,
                                   ContentLength |-> contentLength,
                                   ShapeType |-> ShapeTypeNull,
                                   Bounds |-> NilPtr, Geom |-> NilPtr]),
                   err |-> Nil, r |-> rd, panic |-> FALSE]
        ELSE IF shapeType \in PointTypes
        THEN LET flatCoords == readFloat64s(st.r, Stride(layout))
             IN  IF contentLength # 4 + 8 * Stride(layout)
                 THEN Failed("invalid content length", rd)
                 ELSE [record |-> Ptr([Number |-> recNumber,
                                       ContentLength |-> contentLength,
                                       ShapeType |-> shapeType, Bounds |-> NilPtr,
                                       Geom |-> Ptr([type |-> "Point", layout |-> layout,
                                                 flatCoords |-> flatCoords.v])]),
                       err |-> Nil, r |-> rd, panic |-> FALSE]
        ELSE ReadSHPRecordMulti(rd, opts, recNumber, contentLength, shapeType, layout, st.r)

\* ReadSHPRecord from the read of the content on: c is the result of
\* readFull on the contentLength bytes of the content.
ReadSHPRecordContent(opts, recNumber, contentLength, c) ==
    IF c.err # Nil THEN Failed(c.err, c.r)
    ELSE ReadSHPRecordShape(c.r, opts, recNumber, contentLength,
             readUint32(newByteSliceReader(lastBytes(c.r, contentLength))))

\* ReadSHPRecord(r, options): [record, err, r, panic], r the reader after
\* the call.
ReadSHPRecord(rd, opts) ==
    LET h == readFull(rd, 8)
        recordHeaderData == lastBytes(h.r, 8)
        recNumber == BigEndianUint32(Slice(recordHeaderData, 0, 4))
        contentLength == 2 * BigEndianUint32(Slice(recordHeaderData, 4, 8))
    IN  IF h.err # Nil THEN Failed(h.err, h.r)
        ELSE IF contentLength < 4 THEN Failed("content length too short", h.r)
        ELSE IF OverMax(opts, "MaxRecordSize", contentLength)
        THEN Failed("content length too large", h.r)
        ELSE ReadSHPRecordContent(opts, recNumber, contentLength,
                 readFull(h.r, contentLength))

---------------------------------------------------------------------------
(* The inputs: byte streams built field by field, as a producer of .shp    *)
(* files (or a fuzzer mutating one) writes them.                           *)

\* Bounds of the inputs.
MaxRecords == 2      \* records in a multi-record stream
MaxRings == 3        \* parts of a PolyLine or Polygon record
MaxCut == 5          \* bytes a stream may be cut short by
SmallChunk == 3      \* bytes per Read of a reader that reads in small pieces
BigChunk == 4096     \* bytes per Read of a reader that hands out all it has
LimitParts == 2      \* options.MaxParts when set
LimitPoints == 7     \* options.MaxPoints when set
LimitRecordSize == 320  \* options.MaxRecordSize when set

RECURSIVE Concat(_)
Concat(ss) == IF ss = <<>> THEN <<>> ELSE Head(ss) \o Concat(Tail(ss))

SeqsUpTo(S, n) == UNION {[1..k -> S] : k \in 0..n}

PutUint32LE(n) ==
    <<n % 256, (n \div 256) % 256, (n \div 65536) % 256, (n \div 16777216) % 256>>
PutUint32BE(n) ==
    <<(n \div 16777216) % 256, (n \div 65536) % 256, (n \div 256) % 256, n % 256>>

\* The IEEE 754 binary64 bytes, little-endian, of NaN and of the integers
\* -15..15.
PutFloat64(f) ==
    IF f.nan THEN <<0, 0, 0, 0, 0, 0, 248, 127>>
    ELSE IF f.v = 0 THEN <<0, 0, 0, 0, 0, 0, 0, 0>>
    ELSE LET a == IF f.v < 0 THEN -f.v ELSE f.v
             e == CASE a = 1 -> 0 [] a \in 2..3 -> 1 [] a \in 4..7 -> 2 [] a \in 8..15 -> 3
             frac4 == (a * Pow2(4 - e)) - 16
             exp == 1023 + e
         IN  <<0, 0, 0, 0, 0, 0, (exp % 16) * 16 + frac4,
               (IF f.v < 0 THEN 128 ELSE 0) + exp \div 16>>

Zeros(n) == [i \in 1..n |-> 0]

\* A 100-byte header.
HeaderBytes(code, words, ver, shapeType) ==
    PutUint32BE(code) \o Zeros(20) \o PutUint32BE(words) \o PutUint32LE(ver)
    \o PutUint32LE(shapeType) \o Zeros(64)

\* A record: its 8-byte header and its content.
RecordBytes(number, words, content) ==
    PutUint32BE(number) \o PutUint32BE(words) \o content

\* Rings, as points <<x, y>>. With doubleArea's sign: RingCW is negative
\* (an outer ring), RingCCW positive (a hole), RingZero has area zero,
\* RingShort has three points, RingNaN has a NaN coordinate and RingEmpty
\* no point.
RingCW == <<<<F(0), F(0)>>, <<F(0), F(4)>>, <<F(4), F(0)>>, <<F(0), F(0)>>>>
RingCCW == <<<<F(1), F(1)>>, <<F(2), F(1)>>, <<F(1), F(2)>>, <<F(1), F(1)>>>>
RingZero == <<<<F(0), F(0)>>, <<F(1), F(1)>>, <<F(2), F(2)>>, <<F(0), F(0)>>>>
RingShort == <<<<F(0), F(0)>>, <<F(0), F(4)>>, <<F(4), F(0)>>>>
RingNaN == <<<<NaN, F(0)>>, <<F(0), F(4)>>, <<F(4), F(0)>>, <<F(0), F(0)>>>>
RingEmpty == <<>>
Rings == {RingCW, RingCCW, RingZero, RingShort, RingNaN}
RingLists ==
    ((SeqsUpTo({RingCW, RingCCW}, MaxRings) \cup SeqsUpTo(Rings, 2)) \ {<<>>})
    \cup {<<RingEmpty>>}

\* The part starts, in points, of a list of rings: <<0, |r1|, |r1|+|r2|, ...>>.
RECURSIVE Starts(_, _)
Starts(rings, at) ==
    IF rings = <<>> THEN <<>> ELSE <<at>> \o Starts(Tail(rings), at + Len(Head(rings)))

\* The content of a MultiPoint, PolyLine or Polygon family record written
\* in the wire order of `layout`: the box, the part count and the point
\* count as given, the part table as given, the X,Y pairs, then for XYZM
\* the Z range and Z values, and for XYM and XYZM the M range and M values.
\* Every Z is 6 and every M is 5.
MultiContent(shapeType, layout, withParts, numParts, numPoints, parts, pts) ==
    PutUint32LE(shapeType)
    \o PutFloat64(F(0)) \o PutFloat64(F(0)) \o PutFloat64(F(4)) \o PutFloat64(F(4))
    \o (IF withParts THEN PutUint32LE(numParts) ELSE <<>>)
    \o PutUint32LE(numPoints)
    \o Concat([i \in 1..Len(parts) |-> PutUint32LE(parts[i])])
    \o Concat([i \in 1..Len(pts) |-> PutFloat64(pts[i][1]) \o PutFloat64(pts[i][2])])
    \o (IF layout = "XYZM"
        THEN PutFloat64(F(6)) \o PutFloat64(F(6))
             \o Concat([i \in 1..Len(pts) |-> PutFloat64(F(6))])
        ELSE <<>>)
    \o (IF layout \in {"XYM", "XYZM"}
        THEN PutFloat64(F(5)) \o PutFloat64(F(5))
             \o Concat([i \in 1..Len(pts) |-> PutFloat64(F(5))])
        ELSE <<>>)


Layouts == {"XY", "XYM", "XYZM"}

PointType(layout) ==
    CASE layout = "XY" -> ShapeTypePoint [] layout = "XYM" -> ShapeTypePointM
      [] layout = "XYZM" -> ShapeTypePointZ
MultiPointType(layout) ==
    CASE layout = "XY" -> ShapeTypeMultiPoint [] layout = "XYM" -> ShapeTypeMultiPointM
      [] layout = "XYZM" -> ShapeTypeMultiPointZ
PolyLineType(layout) ==
    CASE layout = "XY" -> ShapeTypePolyLine [] layout = "XYM" -> ShapeTypePolyLineM
      [] layout = "XYZM" -> ShapeTypePolyLineZ
PolygonType(layout) ==
    CASE layout = "XY" -> ShapeTypePolygon [] layout = "XYM" -> ShapeTypePolygonM
      [] layout = "XYZM" -> ShapeTypePolygonZ

\* A record input is [words, content]: the content length the record header
\* declares, in 16-bit words, and the content bytes that follow it.
Input(content) == [words |-> Len(content) \div 2, content |-> content]

\* Well-formed PolyLine and Polygon records of every layout and ring list.
PolyInputs ==
    {Input(MultiContent(t[1], t[2], TRUE, Len(rs), Len(Concat(rs)), Starts(rs, 0), Concat(rs))) :
        t \in {<<PolyLineType(l), l>> : l \in Layouts} \cup {<<PolygonType(l), l>> : l \in Layouts},
        rs \in RingLists}

\* Well-formed MultiPoint records.
MultiPointInputs ==
    {Input(MultiContent(MultiPointType(l), l, FALSE, 0, Len(rg), <<>>, rg)) :
        l \in Layouts, rg \in Rings \cup {RingEmpty}}

\* PolyLine and Polygon records with a wrong part table or wrong counts:
\* a first part other than 0, a last part beyond the point count, a part
\* count of 0, a point count one too large, a part table that decreases.
BadPartInputs ==
    UNION {
        LET k == Len(rs)
            n == Len(Concat(rs))
            st == Starts(rs, 0)
            C(numParts, numPoints, parts) ==
                Input(MultiContent(t[1], t[2], TRUE, numParts, numPoints, parts, Concat(rs)))
        IN  {C(k, n, [st EXCEPT ![1] = 1]),
             C(k, n, [st EXCEPT ![k] = n + 1]),
             C(0, n, <<>>),
             C(k, n + 1, st),
             C(k, n, [i \in 1..k |-> IF i = 1 THEN 0 ELSE st[k + 2 - i]])} :
        t \in {<<PolyLineType(l), l>> : l \in Layouts} \cup {<<PolygonType(l), l>> : l \in Layouts},
        rs \in SeqsUpTo({RingCW, RingCCW}, MaxRings) \ {<<>>}}

\* Records whose declared content length disagrees with their layout: two
\* bytes more than the layout needs, the content cut after the point count
\* (no part table and no coordinates), or the declared length one word short
\* of the content that follows.
BadLengthInputs ==
    UNION {
        LET c == MultiContent(t[1], t[2], TRUE, Len(rs), Len(Concat(rs)), Starts(rs, 0),
                              Concat(rs))
        IN  {Input(c \o <<0, 0>>),
             Input(Slice(c, 0, 44)),
             [words |-> Len(c) \div 2 - 1, content |-> c]} :
        t \in {<<PolyLineType(l), l>> : l \in Layouts} \cup {<<PolygonType(l), l>> : l \in Layouts},
        rs \in {<<RingCW>>, <<RingEmpty>>, <<RingCW, RingCCW>>}}

\* MultiPoint, PolyLine and Polygon records of a Z or M shape type whose
\* content is one coordinate block short (a Z type without its Z block, an
\* M type without its M block), and PolyLine and Polygon records that are
\* two bytes too long and whose part table does not start at 0, and records
\* cut before their point count.
BlockInputs ==
    {Input(Slice(MultiContent(ShapeTypeMultiPoint, "XY", FALSE, 0, 4, <<>>, RingCW), 0, 36)),
     Input(Slice(MultiContent(ShapeTypePolygonM, "XYM", TRUE, 1, 4, <<0>>, RingCW), 0, 40))}
    \cup
    UNION {
        {Input(MultiContent(MultiPointType(t[1]), t[2], FALSE, 0, 4, <<>>, RingCW)),
         Input(MultiContent(PolyLineType(t[1]), t[2], TRUE, 1, 4, <<0>>, RingCW)),
         Input(MultiContent(PolygonType(t[1]), t[2], TRUE, 1, 4, <<0>>, RingCW))} :
        t \in {<<"XYZM", "XYM">>, <<"XYM", "XY">>}}
    \cup
    UNION {
        {Input(MultiContent(PolyLineType(l), l, TRUE, 1, 4, <<1>>, RingCW) \o <<0, 0>>),
         Input(MultiContent(PolygonType(l), l, TRUE, 1, 4, <<1>>, RingCW) \o <<0, 0>>),
         Input(MultiContent(MultiPointType(l), l, FALSE, 0, 4, <<>>, RingCW) \o <<0, 0>>)} :
        l \in Layouts}

\* Null and Point family records, of the right length and of others.
PointCoords == <<F(1), F(2), F(3), F(4), F(5)>>
PointInputs ==
    {Input(PutUint32LE(PointType(l)) \o Concat([i \in 1..n |-> PutFloat64(PointCoords[i])])) :
        l \in Layouts, n \in 0..Len(PointCoords)}
    \cup {Input(PutUint32LE(ShapeTypeNull) \o Zeros(n)) : n \in {0, 4, 16}}

\* Records with a shape type the decoder does not know, or does not support.
OtherShapeTypes == {2, ShapeTypeMultiPatch}
OtherTypeInputs ==
    {Input(MultiContent(ty, l, FALSE, 0, Len(rg), <<>>, rg)) :
        ty \in OtherShapeTypes, l \in {"XY", "XYM"}, rg \in {RingEmpty, RingCW}}
    \cup {Input(PutUint32LE(ty)) : ty \in OtherShapeTypes}

\* Records whose declared content length is below 4.
ShortInputs == {[words |-> w, content |-> Zeros(2 * w)] : w \in {0, 1}}

RecordInputs ==
    PolyInputs \cup MultiPointInputs \cup BadPartInputs \cup BadLengthInputs
    \cup BlockInputs \cup PointInputs \cup OtherTypeInputs \cup ShortInputs

OptionsSet ==
    {NilPtr,
     Ptr([MaxParts |-> 0, MaxPoints |-> 0, MaxRecordSize |-> 0]),
     Ptr([MaxParts |-> 0, MaxPoints |-> LimitPoints, MaxRecordSize |-> 0]),
     Ptr([MaxParts |-> LimitParts, MaxPoints |-> LimitPoints,
          MaxRecordSize |-> LimitRecordSize])}

\* A reader over data.
NewReader(data, chunk, eofWithData) ==
    [data |-> data, off |-> 0, chunk |-> chunk, eofWithData |-> eofWithData]

\* One call of an entry point: the reader, the fileLength argument, the
\* options and the entry point.
Call(data, fileLen, opts, chunk, eofWithData, e) ==
    [r |-> NewReader(data, chunk, eofWithData), fileLength |-> fileLen,
     options |-> opts, entry |-> e]

\* A stream of one record after a valid header, read as the fuzz test reads
\* it: fileLength is the length of the data.
RecordCalls ==
    {LET body == RecordBytes(1, x.words, x.content)
         n == headerSize + Len(body)
     IN  Call(HeaderBytes(fileCode, n \div 2, version, ShapeTypePolygon) \o body,
              n, o, BigChunk, FALSE, "ReadSHP") :
        x \in RecordInputs, o \in OptionsSet}


\* Multi-record streams of Null and Point records: the record at position i
\* carries the sequence number i + d, d in 0..1; the stream is cut short by
\* cut bytes; the header declares either the length of the whole stream
\* (and the caller passes that length) or the length of the data at hand.
SimpleContents ==
    {PutUint32LE(ShapeTypeNull),
     PutUint32LE(ShapeTypePoint) \o PutFloat64(F(1)) \o PutFloat64(F(2))}
StreamBodies ==
    {Concat([i \in 1..Len(cs) |->
                RecordBytes(i + cs[i][2], Len(cs[i][1]) \div 2, cs[i][1])]) :
        cs \in SeqsUpTo(SimpleContents \X {0, 1}, MaxRecords)}
StreamCalls ==
    UNION {
        LET data == Slice(body, 0, Len(body) - cut)
            whole == headerSize + Len(body)
            atHand == headerSize + Len(data)
        IN  {Call(HeaderBytes(fileCode, n \div 2, version, ShapeTypePoint) \o data,
                  n, NilPtr, chunk, e, en) :
                n \in {whole} \cup (IF atHand % 2 = 0 THEN {atHand} ELSE {}),
                chunk \in {SmallChunk, BigChunk}, e \in BOOLEAN,
                en \in {"ReadSHP", "ScannerSHP"}} :
        body \in StreamBodies, cut \in 0..MaxCut}

\* Headers: right and wrong file codes, lengths, versions and shape types,
\* whole or cut short, under several fileLength arguments.
HeaderCalls ==
    {Call(Slice(HeaderBytes(code, words, ver, ty), 0, len), fl, NilPtr, BigChunk, FALSE, en) :
        code \in {fileCode, 0}, words \in {50, 51}, ver \in {version, 0},
        ty \in {ShapeTypeNull, ShapeTypePoint, ShapeTypePolygonZ, ShapeTypeMultiPointM,
                ShapeTypeMultiPatch, 2, 32},
        len \in {headerSize, 60}, fl \in {98, 100, 102},
        en \in {"ReadSHP", "ScannerSHP"}}

\* Header bounds: the bit patterns of -1e38, -9.9e37, the float64s next to
\* -1e38 on either side, -1e39, -Inf, +Inf, 0, 1 and a NaN.
BoundsValues ==
    <<<<199, 210, 206, 211, 42, 22, 161, 177>>,
      <<199, 210, 158, 173, 54, 119, 175, 111>>,
      <<199, 210, 206, 211, 42, 22, 161, 176>>,
      <<199, 210, 206, 211, 42, 22, 161, 178>>,
      <<200, 7, 130, 135, 244, 156, 74, 29>>,
      <<255, 240, 0, 0, 0, 0, 0, 0>>,
      <<127, 240, 0, 0, 0, 0, 0, 0>>,
      <<0, 0, 0, 0, 0, 0, 0, 0>>,
      <<63, 240, 0, 0, 0, 0, 0, 0>>,
      <<255, 248, 0, 0, 0, 0, 0, 1>>>>

\* The little-endian bytes of a float64 given by its bits.
PutFloat64Bits(x) == <<x[8], x[7], x[6], x[5], x[4], x[3], x[2], x[1]>>

\* The value at position i + j of BoundsValues, around the end.
BoundsValue(i, j) == BoundsValues[((i + j - 1) % Len(BoundsValues)) + 1]

\* A valid header of 50 words whose minima are the values from position i
\* on (X, Y, Z, M) and whose maxima are the values from position k on.
BoundsHeaderBytes(shapeType, i, k) ==
    PutUint32BE(fileCode) \o Zeros(20) \o PutUint32BE(50) \o PutUint32LE(version)
    \o PutUint32LE(shapeType)
    \o PutFloat64Bits(BoundsValue(i, 0)) \o PutFloat64Bits(BoundsValue(i, 1))
    \o PutFloat64Bits(BoundsValue(k, 0)) \o PutFloat64Bits(BoundsValue(k, 1))
    \o PutFloat64Bits(BoundsValue(i, 2)) \o PutFloat64Bits(BoundsValue(k, 2))
    \o PutFloat64Bits(BoundsValue(i, 3)) \o PutFloat64Bits(BoundsValue(k, 3))

\* Streams of a header alone, with every pair of positions.
BoundsCalls ==
    {Call(BoundsHeaderBytes(ty, i, k), headerSize, NilPtr, BigChunk, FALSE, "ReadSHP") :
        ty \in {ShapeTypeNull, ShapeTypePoint, ShapeTypePolyLineM, ShapeTypePolygonZ,
                ShapeTypeMultiPointZ},
        i \in 1..Len(BoundsValues), k \in 1..Len(BoundsValues)}

Calls == RecordCalls \cup StreamCalls \cup HeaderCalls \cup BoundsCalls

---------------------------------------------------------------------------
(* The state machine: ReadSHP, one action per iteration of its RECORD     *)
(* loop, and the ScannerSHP a caller scans record by record.               *)

MaxCalls == 4        \* ScannerSHP.Scan calls a caller makes

NotReturned == [shp |-> NilPtr, err |-> Nil, panic |-> FALSE]
NotScanned == [record |-> NilPtr, err |-> Nil, panic |-> FALSE]

\* No .dbf stream is being read.
DBFIdle ==
    /\ dbfR = [data |-> <<>>, off |-> 0, chunk |-> 1, eofWithData |-> FALSE]
    /\ dbfOptions = NilPtr
    /\ dbfEntry = "none"
    /\ dbfPc = "idle"
    /\ dbfHeader = NilPtr
    /\ fieldDescriptors = <<>>
    /\ decoder = NilPtr
    /\ dbfRecords = <<>>
    /\ dbfRet = [dbf |-> NilPtr, err |-> Nil, panic |-> FALSE]
    /\ scannerDBF = NilPtr
    /\ scannedDBF = [record |-> NilPtr, err |-> Nil, panic |-> FALSE]
    /\ dbfCalls = 0

\* No assembly entry point is running.
AssemblyIdle ==
    /\ files = [dbf |-> NilPtr, shp |-> NilPtr, shx |-> NilPtr]
    /\ asmOptions = NilPtr
    /\ asmEntry = "none"
    /\ asmPc = "idle"
    /\ shxR = [data |-> <<>>, off |-> 0, chunk |-> 1, eofWithData |-> FALSE]
    /\ scannerSHX = NilPtr
    /\ shxRecords = <<>>
    /\ shapeScanner = NilPtr
    /\ asmRet = [shapefile |-> NilPtr, err |-> <<>>, panic |-> FALSE]

\* No cursor is read directly, makeMultiPolygonEndss is not called and no
\* goroutine runs.
FunctionsIdle ==
    /\ cursor = [rest |-> <<>>, err |-> Nil]
    /\ flat = <<>>
    /\ lastRead = NilPtr
    /\ reads = 0
    /\ ringArgs = NilPtr
    /\ ringRet = NilPtr
    /\ goroutines = <<>>
    /\ shared = NilPtr

Init ==
    /\ DBFIdle
    /\ AssemblyIdle
    /\ FunctionsIdle
    /\ \E c \in Calls :
           /\ r = c.r
           /\ fileLength = c.fileLength
           /\ options = c.options
           /\ entry = c.entry
           /\ pc = "start"
           /\ header = NilPtr
           /\ recordNumber = 0
           /\ records = <<>>
           /\ ret = NotReturned
           /\ scanner = NilPtr
           /\ scanned = NotScanned
           /\ calls = 0

\* record.Number != recordNumber in ReadSHP, and record.Number !=
\* s.scanRecords+1 in ScannerSHP.Scan.
NumberMismatch_Never(record, expected) == FALSE
NumberMismatch(record, expected) == record.Number # expected

\* ReadSHP up to its loop: readSHxHeader.
ReadSHPHeader ==
    /\ pc = "start"
    /\ entry = "ReadSHP"
    /\ LET h == readSHxHeader(r, fileLength)
       IN  /\ r' = h.r
           /\ IF h.err # Nil
              THEN /\ ret' = [shp |-> NilPtr, err |-> h.err, panic |-> FALSE]
                   /\ pc' = "done"
                   /\ UNCHANGED <<header, recordNumber>>
              ELSE /\ header' = h.header
                   /\ recordNumber' = 1
                   /\ pc' = "loop"
                   /\ UNCHANGED ret
    /\ UNCHANGED <<fileLength, options, entry, records, scanner, scanned, calls>>
    /\ UNCHANGED <<dbfVars, asmVars, fnVars>>

\* The switch of ReadSHP's RECORD loop on the result res of ReadSHPRecord,
\* and the return after the loop. The error of a failed record is wrapped
\* ("record n: ..."); ret.err is the wrapped error's cause.
ReadSHPSwitch(res) ==
    /\ r' = res.r
    /\ CASE res.panic ->
              /\ ret' = [shp |-> NilPtr, err |-> Nil, panic |-> TRUE]
              /\ pc' = "done"
              /\ UNCHANGED <<records, recordNumber>>
         [] ~res.panic /\ res.err = EOF ->
              /\ ret' = [shp |-> Ptr([SHxHeader |-> Deref(header), Records |-> records]),
                         err |-> Nil, panic |-> FALSE]
              /\ pc' = "done"
              /\ UNCHANGED <<records, recordNumber>>
         [] ~res.panic /\ res.err \notin {Nil, EOF} ->
              /\ ret' = [shp |-> NilPtr, err |-> res.err, panic |-> FALSE]
              /\ pc' = "done"
              /\ UNCHANGED <<records, recordNumber>>
         [] ~res.panic /\ res.err = Nil /\ NumberMismatch(Deref(res.record), recordNumber) ->
              /\ ret' = [shp |-> NilPtr, err |-> "invalid record number",
                         panic |-> FALSE]
              /\ pc' = "done"
              /\ UNCHANGED <<records, recordNumber>>
         [] OTHER ->
              /\ records' = Append(records, res.record)
              /\ recordNumber' = recordNumber + 1
              /\ UNCHANGED <<ret, pc>>

\* One iteration of ReadSHP's RECORD loop.
ReadSHPRecordLoop ==
    /\ pc = "loop"
    /\ ReadSHPSwitch(ReadSHPRecord(r, options))
    /\ UNCHANGED <<fileLength, options, entry, header, scanner, scanned, calls>>
    /\ UNCHANGED <<dbfVars, asmVars, fnVars>>

\* NewScannerSHP(reader, size, options).
NewScannerSHP ==
    /\ pc = "start"
    /\ entry = "ScannerSHP"
    /\ LET h == readSHxHeader(r, fileLength)
       IN  IF h.err # Nil
           THEN /\ r' = h.r
                /\ ret' = [shp |-> NilPtr, err |-> h.err, panic |-> FALSE]
                /\ pc' = "done"
                /\ UNCHANGED <<header, scanner>>
           ELSE /\ r' = bufioNewReader(h.r)
                /\ header' = h.header
                /\ scanner' = Ptr([scanRecords |-> 0, err |-> Nil])
                /\ pc' = "scan"
                /\ UNCHANGED ret
    /\ UNCHANGED <<fileLength, options, entry, recordNumber, records, scanned, calls>>
    /\ UNCHANGED <<dbfVars, asmVars, fnVars>>

\* The switch of ScannerSHP.Scan on the result res of ReadSHPRecord.
ScanSwitch(res) ==
    /\ r' = res.r
    /\ CASE res.panic ->
              /\ scanned' = [record |-> NilPtr, err |-> Nil, panic |-> TRUE]
              /\ UNCHANGED scanner
         [] ~res.panic /\ res.err # Nil ->
              /\ scanner' = Ptr([Deref(scanner) EXCEPT !.err = res.err])
              /\ scanned' = [record |-> NilPtr, err |-> res.err, panic |-> FALSE]
         [] ~res.panic /\ res.err = Nil
              /\ NumberMismatch(Deref(res.record), Deref(scanner).scanRecords + 1) ->
              /\ scanner' = Ptr([Deref(scanner) EXCEPT !.err = "invalid record number"])
              /\ scanned' = [record |-> NilPtr, err |-> "invalid record number",
                             panic |-> FALSE]
         [] OTHER ->
              /\ scanner' = Ptr([Deref(scanner) EXCEPT !.scanRecords = @ + 1])
              /\ scanned' = [record |-> res.record, err |-> Nil, panic |-> FALSE]

\* ScannerSHP.Scan, called by the scanner's user.
ScannerSHPScan ==
    /\ pc = "scan"
    /\ calls < MaxCalls
    /\ calls' = calls + 1
    /\ IF Deref(scanner).err # Nil
       THEN /\ scanned' = [record |-> NilPtr, err |-> Deref(scanner).err, panic |-> FALSE]
            /\ UNCHANGED <<r, scanner>>
       ELSE ScanSwitch(ReadSHPRecord(r, options))
    /\ UNCHANGED <<fileLength, options, entry, pc, header, recordNumber, records, ret>>
    /\ UNCHANGED <<dbfVars, asmVars, fnVars>>

Next == ReadSHPHeader \/ ReadSHPRecordLoop \/ NewScannerSHP \/ ScannerSHPScan

Spec == Init /\ [][Next]_vars

---------------------------------------------------------------------------
(* What the properties below read off a state.                             *)

RECURSIVE SumLengths(_)
SumLengths(recs) ==
    IF recs = <<>> THEN 0
    ELSE 8 + Deref(Head(recs)).ContentLength + SumLengths(Tail(recs))

\* ReadSHP has returned an SHP / an error.
Returned == pc = "done" /\ entry = "ReadSHP"
Succeeded == Returned /\ ret.shp # NilPtr
ReturnedRecords == Deref(ret.shp).Records

\* The next operation is ReadSHPRecord(r, options), and its result.
Reading == pc = "loop" \/ (pc = "scan" /\ Deref(scanner).err = Nil)
NextRecord == ReadSHPRecord(r, options)

\* The bytes ahead of the reader, as the wire format lays a record out
\* (section 6 of the specification): is a whole record there, its declared
\* content length, its content and its shape type.
Avail == Len(r.data) - r.off
AheadLength == 2 * BigEndianUint32(Slice(r.data, r.off + 4, r.off + 8))
AheadWhole == Avail >= 8 /\ AheadLength >= 4 /\ Avail >= 8 + AheadLength
AheadContent == Slice(r.data, r.off + 8, r.off + 8 + AheadLength)
AheadType == LittleEndianUint32(Slice(AheadContent, 0, 4))

---------------------------------------------------------------------------
(* C1. For every stream and every options value, ReadSHP ends by          *)
(* returning either an error or an SHP: no step of the decoder (cursor     *)
(* reads, readEnds, readXYs, readOrdinates, makeMultiPolygonEndss,         *)
(* doubleArea) indexes outside the record content or the flat coordinate   *)
(* buffer.                                                                 *)
C1_NoIndexOutOfRange ==
    /\ ~ret.panic
    /\ ~scanned.panic
    /\ Reading => ~NextRecord.panic
    /\ Returned => (ret.err # Nil) # (ret.shp # NilPtr)

\* A PolygonZ record of two polygons went through readEnds, readXYs,
\* readOrdinates and makeMultiPolygonEndss, and ReadSHP returned it.
C1_Witness ==
    /\ Succeeded
    /\ \E i \in 1..Len(ReturnedRecords) :
          LET rec == Deref(ReturnedRecords[i])
          IN  /\ rec.ShapeType = ShapeTypePolygonZ
              /\ Len(Deref(rec.Geom).endss) = 2

(* C2. ReadSHP returns successfully only when the stream ends exactly at  *)
(* a record boundary: every byte after the header belongs to a returned    *)
(* record. A stream that ends inside a record header or inside the         *)
(* declared content makes ReadSHP return an error.                         *)
C2_SuccessOnlyAtRecordBoundary ==
    Succeeded => Len(r.data) = headerSize + SumLengths(ReturnedRecords)

(* C3. Records are produced strictly in sequence order. ReadSHP's         *)
(* Records[i] carries the number i+1 (0-based i); a record read at         *)
(* position k with another number makes ReadSHP return an error and no     *)
(* SHP. ScannerSHP.Scan's k-th successful call returns the record          *)
(* numbered k, and a mismatch latches an error that every later call       *)
(* returns.                                                                *)
C3_NumbersInOrder ==
    /\ \A i \in 1..Len(records) : Deref(records[i]).Number = i
    /\ Succeeded => \A i \in 1..Len(ReturnedRecords) : Deref(ReturnedRecords[i]).Number = i
    /\ scanned.record # NilPtr =>
          /\ scanned.err = Nil
          /\ Deref(scanned.record).Number = Deref(scanner).scanRecords

C3_MismatchFails ==
    /\ (pc = "loop" /\ NextRecord.err = Nil
            /\ Deref(NextRecord.record).Number # Len(records) + 1) =>
          (pc' = "done" /\ ret'.err # Nil /\ ret'.shp = NilPtr)
    /\ (pc = "scan" /\ Deref(scanner).err = Nil /\ NextRecord.err = Nil
            /\ Deref(NextRecord.record).Number # Deref(scanner).scanRecords + 1) =>
          (Deref(scanner').err # Nil /\ scanned'.err # Nil /\ scanned'.record = NilPtr)
    /\ (pc = "scan" /\ Deref(scanner).err # Nil) =>
          (scanner' = scanner /\ scanned'.err = Deref(scanner).err
           /\ scanned'.record = NilPtr)

C3_SequenceOrder == []C3_NumbersInOrder /\ [][C3_MismatchFails]_vars

\* The scanner returned record 1, then met a record with another number,
\* and a later call returned the latched error.
C3_Witness ==
    /\ pc = "scan"
    /\ Deref(scanner).scanRecords = 1
    /\ Deref(scanner).err = "invalid record number"
    /\ calls >= 3
    /\ scanned.err = "invalid record number"

(* C4. ReadSHPRecord returns an error for every record whose shape type   *)
(* is not one of the 13 supported codes: no returned record carries an     *)
(* unknown shape type or MultiPatch.                                       *)
SupportedShapeTypes == validShapeTypes \ unsupportedShapeTypes
C4_NoUnsupportedShapeType ==
    /\ \A i \in 1..Len(records) : Deref(records[i]).ShapeType \in SupportedShapeTypes
    /\ scanned.record # NilPtr => Deref(scanned.record).ShapeType \in SupportedShapeTypes


(* C5. ReadSHPRecord accepts a Point, PointM or PointZ record whose       *)
(* content it has read (the stream holds the declared content, which is    *)
(* within a configured MaxRecordSize) if and only if the content length    *)
(* is 4 + 8*stride, that is 20, 28 and 36 bytes; the accepted point has    *)
(* exactly stride coordinates, the doubles of the content in wire order.   *)
PointLength(shapeType) ==
    CASE shapeType = 1 -> 20 [] shapeType = 21 -> 28 [] shapeType = 11 -> 36
WithinRecordSize ==
    options = NilPtr \/ Deref(options).MaxRecordSize = 0
    \/ AheadLength <= Deref(options).MaxRecordSize
PointAhead == Reading /\ AheadWhole /\ AheadType \in {1, 21, 11} /\ WithinRecordSize
PointIsWireOrder(rec, content) ==
    LET n == (PointLength(rec.ShapeType) - 4) \div 8
        g == Deref(rec.Geom)
    IN  /\ rec.ContentLength = PointLength(rec.ShapeType)
        /\ Len(g.flatCoords) = n
        /\ \A j \in 1..n :
              g.flatCoords[j] = Float64frombits(Slice(content, 4 + 8 * (j - 1), 4 + 8 * j))
C5_PointContentLength ==
    /\ PointAhead =>
          /\ (NextRecord.err = Nil) <=> (AheadLength = PointLength(AheadType))
          /\ NextRecord.err = Nil =>
                PointIsWireOrder(Deref(NextRecord.record), AheadContent)
    /\ \A i \in 1..Len(records) :
          Deref(records[i]).ShapeType \in {1, 21, 11} =>
             /\ Deref(records[i]).ContentLength = PointLength(Deref(records[i]).ShapeType)
             /\ Len(Deref(Deref(records[i]).Geom).flatCoords) * 8 + 4
                   = Deref(records[i]).ContentLength

\* ReadSHP has appended a PointZ record of four coordinates.
C5_Witness ==
    /\ Len(records) = 1
    /\ Deref(records[1]).ShapeType = ShapeTypePointZ
    /\ Deref(Deref(records[1]).Geom).flatCoords = <<F(1), F(2), F(3), F(4)>>

(* C6. No record that ReadSHPRecord returns exceeds a configured non-zero *)
(* maximum (content length <= MaxRecordSize, parts <= MaxParts, points <=  *)
(* MaxPoints); a content length below 4 and a part count of 0 are always   *)
(* rejected; a maximum of 0, or nil options, never rejects; and a content  *)
(* length over MaxRecordSize is rejected after the 8 header bytes, before  *)
(* any content byte is read.                                               *)
Limit(field) == IF options = NilPtr THEN 0 ELSE Deref(options)[field]
RECURSIVE SumLen(_)
SumLen(ss) == IF ss = <<>> THEN 0 ELSE Len(Head(ss)) + SumLen(Tail(ss))
NumPointsOf(rec) ==
    IF rec.Geom = NilPtr THEN 0
    ELSE Len(Deref(rec.Geom).flatCoords) \div Stride(Deref(rec.Geom).layout)
NumPartsOf(rec) ==
    IF rec.Geom = NilPtr THEN 0
    ELSE CASE Deref(rec.Geom).type = "MultiLineString" -> Len(Deref(rec.Geom).ends)
           [] Deref(rec.Geom).type = "MultiPolygon" -> SumLen(Deref(rec.Geom).endss)
           [] OTHER -> 0
HasPartTable(shapeType) == shapeType \in {3, 23, 13, 5, 25, 15}
WithinLimits(rec) ==
    /\ rec.ContentLength >= 4
    /\ Limit("MaxRecordSize") # 0 => rec.ContentLength <= Limit("MaxRecordSize")
    /\ Limit("MaxParts") # 0 => NumPartsOf(rec) <= Limit("MaxParts")
    /\ Limit("MaxPoints") # 0 => NumPointsOf(rec) <= Limit("MaxPoints")
    /\ HasPartTable(rec.ShapeType) => NumPartsOf(rec) >= 1
C6_Maxima ==
    /\ \A i \in 1..Len(records) : WithinLimits(Deref(records[i]))
    /\ scanned.record # NilPtr => WithinLimits(Deref(scanned.record))
    /\ Reading =>
          /\ NextRecord.err = Nil => WithinLimits(Deref(NextRecord.record))
          /\ (Avail >= 8 /\ AheadLength < 4) => NextRecord.err = "content length too short"
          /\ (AheadWhole /\ HasPartTable(AheadType) /\ AheadLength >= 40
                /\ LittleEndianUint32(Slice(AheadContent, 36, 40)) = 0) =>
                NextRecord.err # Nil
          /\ Limit("MaxRecordSize") = 0 => NextRecord.err # "content length too large"
          /\ Limit("MaxParts") = 0 => NextRecord.err # "too many parts"
          /\ Limit("MaxPoints") = 0 => NextRecord.err # "too many points"
          /\ (Avail >= 8 /\ AheadLength >= 4 /\ Limit("MaxRecordSize") # 0
                /\ AheadLength > Limit("MaxRecordSize")) =>
                NextRecord.err = "content length too large"
          /\ NextRecord.err = "content length too large" => NextRecord.r.off = r.off + 8

\* ReadSHP rejected the first record for its size, having read only the
\* record's 8 header bytes, although the stream held the whole content.
C6_Witness ==
    /\ Returned
    /\ ret.err = "content length too large"
    /\ r.off = headerSize + 8
    /\ Len(r.data) > LimitRecordSize + headerSize + 8

(* C7. parseSHxHeader checks a 100-byte header in the order file code     *)
(* (9994), file length (2 * stored words = supplied length), version       *)
(* (1000), shape type; a header that violates several checks is reported   *)
(* with the error of the earliest one, every check has its own error, and  *)
(* MultiPatch (31) is 'unsupported shape type', not 'invalid shape type'.  *)
HeaderRead == pc # "start" /\ fileLength >= 100 /\ Len(r.data) >= 100
HeaderCode == BigEndianUint32(Slice(r.data, 0, 4))
HeaderWords == BigEndianUint32(Slice(r.data, 24, 28))
HeaderVersion == LittleEndianUint32(Slice(r.data, 28, 32))
HeaderShapeType == LittleEndianUint32(Slice(r.data, 32, 36))
FirstViolatedCheck ==
    CASE HeaderCode # 9994 -> "invalid file code"
      [] HeaderCode = 9994 /\ 2 * HeaderWords # fileLength -> "invalid file length"
      [] HeaderCode = 9994 /\ 2 * HeaderWords = fileLength /\ HeaderVersion # 1000 ->
           "invalid header version"
      [] HeaderCode = 9994 /\ 2 * HeaderWords = fileLength /\ HeaderVersion = 1000
           /\ HeaderShapeType \notin {0, 1, 3, 5, 8, 11, 13, 15, 18, 21, 23, 25, 28, 31} ->
           "invalid shape type"
      [] HeaderCode = 9994 /\ 2 * HeaderWords = fileLength /\ HeaderVersion = 1000
           /\ HeaderShapeType = 31 -> "unsupported shape type"
      [] OTHER -> Nil
C7_HeaderCheckOrder ==
    HeaderRead =>
       IF FirstViolatedCheck # Nil
       THEN pc = "done" /\ ret.err = FirstViolatedCheck /\ header = NilPtr
            /\ ret.shp = NilPtr
       ELSE header # NilPtr /\ Deref(header).ShapeType = HeaderShapeType

\* A header with a wrong file length and a wrong version was rejected for
\* its file length.
C7_Witness ==
    /\ HeaderRead
    /\ HeaderCode = 9994
    /\ 2 * HeaderWords # fileLength
    /\ HeaderVersion # 1000
    /\ ret.err = "invalid file length"

(* C8. File-length round trip: when ReadSHP(r, fileLength) succeeds, 100  *)
(* plus the sum over the returned records of 8 + ContentLength equals the  *)
(* supplied fileLength; and a fileLength other than twice the header's     *)
(* stored word count fails header validation.                              *)
C8_FileLengthRoundTrip ==
    /\ Succeeded => headerSize + SumLengths(ReturnedRecords) = fileLength
    /\ (HeaderRead /\ HeaderCode = 9994 /\ 2 * HeaderWords # fileLength) =>
          ret.err = "invalid file length"

(* The rings of a polygon record, seen from outside the resolver: ring k   *)
(* of the record spans the flat coordinates between the k-1st and the kth  *)
(* end of the concatenated groups, and its signed double area is the       *)
(* shoelace sum over its X and Y.                                          *)
RECURSIVE FlattenEndss(_)
FlattenEndss(endss) ==
    IF endss = <<>> THEN <<>> ELSE Head(endss) \o FlattenEndss(Tail(endss))
RECURSIVE Shoelace(_, _, _, _)
Shoelace(fc, stride, first, last) ==
    IF first >= last THEN F(0)
    ELSE FAdd(FMul(FSub(fc[(first + 1) * stride + 2], fc[first * stride + 2]),
                   FAdd(fc[(first + 1) * stride + 1], fc[first * stride + 1])),
              Shoelace(fc, stride, first + 1, last))
RingArea(g, k) ==
    LET ends == FlattenEndss(g.endss)
        stride == Stride(g.layout)
        from == IF k = 1 THEN 0 ELSE ends[k - 1] \div stride
        to == ends[k] \div stride
    IN  Shoelace(g.flatCoords, stride, from, to - 1)
RingIndex(g, group, j) == SumLen(SubSeq(g.endss, 1, group - 1)) + j
IsPolygonRecord(p) ==
    /\ p # NilPtr
    /\ Deref(p).Geom # NilPtr
    /\ Deref(Deref(p).Geom).type = "MultiPolygon"
FIsPos(a) == ~a.nan /\ a.v > 0

(* C9 as stated: in every group of a returned polygon the first ring has  *)
(* negative signed double area and every subsequent ring has non-negative  *)
(* signed double area.                                                     *)
OrientationAsStated(g) ==
    \A group \in 1..Len(g.endss) : \A j \in 1..Len(g.endss[group]) :
       LET a == RingArea(g, RingIndex(g, group, j))
       IN  IF j = 1 THEN FIsNeg(a) ELSE FIsPos(a) \/ FIsZero(a)
OrientationAmended(g) ==
    /\ g.endss # <<>>
    /\ \A group \in 1..Len(g.endss) :
          /\ g.endss[group] # <<>>
          /\ \A j \in 1..Len(g.endss[group]) :
                LET a == RingArea(g, RingIndex(g, group, j))
                IN  /\ ~FIsZero(a)
                    /\ (j = 1 /\ group > 1) => FIsNeg(a)
                    /\ j > 1 => ~FIsNeg(a)
AheadNumParts == LittleEndianUint32(Slice(AheadContent, 36, 40))
AheadNumPoints == LittleEndianUint32(Slice(AheadContent, 40, 44))
AheadPart(i) ==
    IF i > AheadNumParts THEN AheadNumPoints
    ELSE LittleEndianUint32(Slice(AheadContent, 44 + 4 * (i - 1), 44 + 4 * i))
AheadX(p) ==
    Float64frombits(Slice(AheadContent, 44 + 4 * AheadNumParts + 16 * p,
                          44 + 4 * AheadNumParts + 16 * p + 8))
AheadY(p) ==
    Float64frombits(Slice(AheadContent, 44 + 4 * AheadNumParts + 16 * p + 8,
                          44 + 4 * AheadNumParts + 16 * p + 16))
RECURSIVE AheadArea(_, _)
AheadArea(first, last) ==
    IF first >= last THEN F(0)
    ELSE FAdd(FMul(FSub(AheadY(first + 1), AheadY(first)),
                   FAdd(AheadX(first + 1), AheadX(first))),
              AheadArea(first + 1, last))
PolygonLength(shapeType, numParts, numPoints) ==
    44 + 4 * numParts + 16 * numPoints
       + (IF shapeType \in {15, 25} THEN 16 + 8 * numPoints ELSE 0)
       + (IF shapeType = 15 THEN 16 + 8 * numPoints ELSE 0)
PolygonAhead ==
    /\ Reading /\ AheadWhole /\ AheadType \in {5, 25, 15} /\ WithinRecordSize
    /\ AheadLength >= 44
    /\ AheadNumParts >= 1
    /\ Limit("MaxParts") # 0 => AheadNumParts <= Limit("MaxParts")
    /\ Limit("MaxPoints") # 0 => AheadNumPoints <= Limit("MaxPoints")
    /\ AheadLength = PolygonLength(AheadType, AheadNumParts, AheadNumPoints)
    /\ AheadPart(1) = 0
    /\ \A i \in 1..AheadNumParts : AheadPart(i) <= AheadNumPoints
TooFew(i) == AheadPart(i + 1) - AheadPart(i) < 4
ZeroArea(i) == FIsZero(AheadArea(AheadPart(i), AheadPart(i + 1) - 1))
BadRings == {i \in 1..AheadNumParts : TooFew(i) \/ ZeroArea(i)}
FirstBadRing == CHOOSE i \in BadRings : \A j \in BadRings : i <= j
C10_DegenerateRings ==
    PolygonAhead =>
       IF BadRings # {}
       THEN /\ NextRecord.record = NilPtr
            /\ NextRecord.err = IF TooFew(FirstBadRing) THEN "too few points in ring"
                                ELSE "zero area ring"
       ELSE NextRecord.err = Nil /\ IsPolygonRecord(NextRecord.record)

\* ReadSHP failed on a polygon whose first ring is sound and whose second
\* ring has zero area.
C10_Witness ==
    /\ Returned
    /\ ret.err = "zero area ring"
    /\ ret.shp = NilPtr
    /\ Len(r.data) >= headerSize + 8 + 44
    /\ LittleEndianUint32(Slice(r.data, headerSize + 8 + 36, headerSize + 8 + 40)) >= 2

(* C11. For every accepted PolyLine, PolyLineM or PolyLineZ record with    *)
(* declared part starts p0 = 0, p1, ..., p(k-1) and n points, the ends      *)
(* table is stride*p1, ..., stride*p(k-1), stride*n and line string i of    *)
(* the geometry holds exactly the points p_i up to p_(i+1) (p_k = n), a     *)
(* range of p_(i+1) - p_i >= 0 points with the coordinates of the wire; a   *)
(* first part other than 0 or a part start beyond n is rejected.            *)
PolyLineStride(shapeType) ==
    CASE shapeType = 3 -> 2 [] shapeType = 23 -> 3 [] shapeType = 13 -> 4
PolyLineAhead ==
    /\ Reading /\ AheadWhole /\ AheadType \in {3, 23, 13} /\ WithinRecordSize
    /\ AheadLength >= 44
    /\ AheadNumParts >= 1
    /\ Limit("MaxParts") # 0 => AheadNumParts <= Limit("MaxParts")
    /\ Limit("MaxPoints") # 0 => AheadNumPoints <= Limit("MaxPoints")
    /\ AheadLength = 44 + 4 * AheadNumParts + 16 * AheadNumPoints
          + (IF AheadType \in {13, 23} THEN 16 + 8 * AheadNumPoints ELSE 0)
          + (IF AheadType = 13 THEN 16 + 8 * AheadNumPoints ELSE 0)
LineStringIsPart(g, i) ==
    LET stride == PolyLineStride(AheadType)
    IN  /\ g.ends[i] = stride * AheadPart(i + 1)
        /\ AheadPart(i) <= AheadPart(i + 1)
        /\ \A p \in AheadPart(i)..(AheadPart(i + 1) - 1) :
              /\ g.flatCoords[p * stride + 1] = AheadX(p)
              /\ g.flatCoords[p * stride + 2] = AheadY(p)
StoredBits(off) == [i \in 1..8 |-> r.data[off + 9 - i]]
\* The bit patterns of the inputs that are <= -1e38: -1e38 itself, the next
\* float64 below it, -1e39 and -Inf.
StoredNoData ==
    {<<199, 210, 206, 211, 42, 22, 161, 177>>, <<199, 210, 206, 211, 42, 22, 161, 178>>,
     <<200, 7, 130, 135, 244, 156, 74, 29>>, <<255, 240, 0, 0, 0, 0, 0, 0>>}
StoredKnown ==
    StoredNoData \cup
    {<<199, 210, 158, 173, 54, 119, 175, 111>>, <<199, 210, 206, 211, 42, 22, 161, 176>>,
     <<127, 240, 0, 0, 0, 0, 0, 0>>, <<0, 0, 0, 0, 0, 0, 0, 0>>,
     <<63, 240, 0, 0, 0, 0, 0, 0>>, <<255, 248, 0, 0, 0, 0, 0, 1>>}
ExpectedMin(off) ==
    IF StoredBits(off) \in StoredNoData THEN <<127, 240, 0, 0, 0, 0, 0, 0>>
    ELSE StoredBits(off)
ExpectedMax(off) ==
    IF StoredBits(off) \in StoredNoData THEN <<255, 240, 0, 0, 0, 0, 0, 0>>
    ELSE StoredBits(off)
C12_NoDataBounds ==
    (HeaderRead /\ header # NilPtr /\ \A k \in 0..7 : StoredBits(36 + 8 * k) \in StoredKnown) =>
       LET b == Deref(header).Bounds
           ty == HeaderShapeType
       IN  CASE ty = 0 -> b = NilPtr
             [] ty \in {1, 3, 5, 8} ->
                  /\ b # NilPtr
                  /\ Deref(b).min = <<ExpectedMin(36), ExpectedMin(44)>>
                  /\ Deref(b).max = <<ExpectedMax(52), ExpectedMax(60)>>
             [] ty \in {21, 23, 25, 28} ->
                  /\ b # NilPtr
                  /\ Deref(b).min = <<ExpectedMin(36), ExpectedMin(44), ExpectedMin(84)>>
                  /\ Deref(b).max = <<ExpectedMax(52), ExpectedMax(60), ExpectedMax(92)>>
             [] ty \in {11, 13, 15, 18} ->
                  /\ b # NilPtr
                  /\ Deref(b).min = <<ExpectedMin(36), ExpectedMin(44), ExpectedMin(68),
                                      ExpectedMin(84)>>
                  /\ Deref(b).max = <<ExpectedMax(52), ExpectedMax(60), ExpectedMax(76),
                                      ExpectedMax(92)>>

\* A PolygonZ header stored -1e38 as its minimum X and -9.9e37 as its
\* minimum Y, and -Inf as its maximum M: the bounds have +Inf, -9.9e37
\* unchanged, and -Inf.
C12_Witness ==
    /\ HeaderRead /\ header # NilPtr
    /\ HeaderShapeType = 15
    /\ StoredBits(36) = <<199, 210, 206, 211, 42, 22, 161, 177>>
    /\ StoredBits(44) = <<199, 210, 158, 173, 54, 119, 175, 111>>
    /\ Deref(Deref(header).Bounds).min[1] = <<127, 240, 0, 0, 0, 0, 0, 0>>
    /\ Deref(Deref(header).Bounds).min[2] = <<199, 210, 158, 173, 54, 119, 175, 111>>
    /\ Deref(Deref(header).Bounds).max[4] = <<255, 240, 0, 0, 0, 0, 0, 0>>

---------------------------------------------------------------------------
(* The attribute table decoder: dbf.go.                                    *)

dbfHeaderLength == 32
dbfFieldDescriptorSize == 32

\* 'C', 'D', 'F', 'L', 'M', 'N'
knownFieldTypes == {67, 68, 70, 76, 77, 78}

\* Values of type any: nil is NilPtr, every other value carries its type.
StringValue(b) == <<"string", b>>
Time(year, month, day) == <<"time.Time", year, month, day>>
ZeroTime == Time(1, 1, 1)
Float64Value(num, scale) == <<"float64", num, scale>>
IntValue(v) == <<"int", v>>
BoolValue(b) == <<"bool", b>>
DBFMemo(b) == <<"DBFMemo", b>>

SetMax(S) == CHOOSE x \in S : \A y \in S : y <= x
SetMin(S) == CHOOSE x \in S : \A y \in S : x <= y

LittleEndianUint16(b) == b[2] * 256 + b[1]

\* TrimTrailingZeros(data)
TrimTrailingZeros(data) ==
    IF \A i \in 1..Len(data) : data[i] = 0 THEN <<>>
    ELSE SubSeq(data, 1, SetMax({i \in 1..Len(data) : data[i] # 0}))

\* bytes.TrimSpace(b), for bytes below 0x80: the white space is
\* '\t', '\n', '\v', '\f', '\r' and ' '.
TrimSpace(b) ==
    IF \A i \in 1..Len(b) : b[i] \in {9, 10, 11, 12, 13, 32} THEN <<>>
    ELSE SubSeq(b, SetMin({i \in 1..Len(b) : b[i] \notin {9, 10, 11, 12, 13, 32}}),
                   SetMax({i \in 1..Len(b) : b[i] \notin {9, 10, 11, 12, 13, 32}}))

IsDigits(b) == \A i \in 1..Len(b) : b[i] \in 48..57

\* The number written by the decimal digits b.
RECURSIVE DigitsValue(_)
DigitsValue(b) ==
    IF b = <<>> THEN 0
    ELSE DigitsValue(SubSeq(b, 1, Len(b) - 1)) * 10 + (b[Len(b)] - 48)

\* s without a leading '+' or '-', and the sign that was written.
Unsigned(s) == IF s # <<>> /\ s[1] \in {43, 45} THEN Tail(s) ELSE s
SignOf(s) == IF s # <<>> /\ s[1] = 45 THEN -1 ELSE 1

\* strconv.ParseInt(s, 10, 64): [v, err], for strings of at most 9 bytes,
\* whose values are within range.
ParseInt(s) ==
    IF Unsigned(s) # <<>> /\ IsDigits(Unsigned(s))
    THEN [v |-> SignOf(s) * DigitsValue(Unsigned(s)), err |-> Nil]
    ELSE [v |-> 0, err |-> "invalid syntax"]

\* The place of the '.' in b, or Len(b) + 1.
PointAt(b) ==
    IF \E i \in 1..Len(b) : b[i] = 46 THEN SetMin({i \in 1..Len(b) : b[i] = 46})
    ELSE Len(b) + 1

\* strconv.ParseFloat(s, 64): [v, err], for strings of at most 9 bytes. A
\* decimal mantissa is a float64 given by its digits and the number of them
\* after the point. The bytes that other forms of a float are written with
\* (exponents, hexadecimal, infinities, NaNs, underscores) are outside the
\* operator's domain.
ParseFloat(s) ==
    CASE \A i \in 1..Len(s) : s[i] \in (48..57) \cup {43, 45, 46}
           -> IF /\ IsDigits(SubSeq(Unsigned(s), 1, PointAt(Unsigned(s)) - 1))
                 /\ IsDigits(SubSeq(Unsigned(s), PointAt(Unsigned(s)) + 1, Len(Unsigned(s))))
                 /\ \E i \in 1..Len(Unsigned(s)) : Unsigned(s)[i] \in 48..57
              THEN [v |-> Float64Value(
                              SignOf(s) * DigitsValue(SelectSeq(Unsigned(s),
                                                      LAMBDA c : c # 46)),
                              IF PointAt(Unsigned(s)) > Len(Unsigned(s)) THEN 0
                              ELSE Len(Unsigned(s)) - PointAt(Unsigned(s))),
                    err |-> Nil]
              ELSE [v |-> Float64Value(0, 0), err |-> "invalid syntax"]
      [] /\ \E i \in 1..Len(s) : s[i] \notin (48..57) \cup {43, 45, 46}
         /\ \A i \in 1..Len(s) :
               s[i] \notin {69, 101, 88, 120, 80, 112, 95, 73, 105, 78, 110, 70, 102,
                            65, 97, 84, 116, 89, 121}
           -> [v |-> Float64Value(0, 0), err |-> "invalid syntax"]

\* The decoder of ReadDBF and NewScannerDBF: [decoder, err]. The bytes of
\* the model's fields are below 0x80, which every decoder maps to
\* themselves.
KnownCharsets == {"utf-8"}
newDecoder(opts) ==
    IF opts # NilPtr /\ Deref(opts).Charset # ""
    THEN IF Deref(opts).Charset \in KnownCharsets
         THEN [decoder |-> Ptr(Deref(opts).Charset), err |-> Nil]
         ELSE [decoder |-> NilPtr, err |-> "unknown charset"]
    ELSE [decoder |-> Ptr("ISO8859_1"), err |-> Nil]

\* The field parsers: [field, err], field being what the parser returns
\* together with its error.
parseCharacter(data, dec) ==
    IF dec = NilPtr THEN [field |-> StringValue(<<>>), err |-> "decoder is nil"]
    ELSE [field |-> StringValue(TrimSpace(TrimTrailingZeros(data))), err |-> Nil]

parseDate(data) ==
    CASE Len(data) # 8 -> [field |-> ZeroTime, err |-> "invalid date field length"]
      [] Len(data) = 8 /\ ParseInt(Slice(data, 0, 4)).err # Nil
           -> [field |-> ZeroTime, err |-> "invalid year"]
      [] Len(data) = 8 /\ ParseInt(Slice(data, 0, 4)).err = Nil
         /\ ParseInt(Slice(data, 4, 6)).err # Nil
           -> [field |-> ZeroTime, err |-> "invalid month"]
      [] Len(data) = 8 /\ ParseInt(Slice(data, 0, 4)).err = Nil
         /\ ParseInt(Slice(data, 4, 6)).err = Nil
         /\ ParseInt(Slice(data, 6, 8)).err # Nil
           -> [field |-> ZeroTime, err |-> "invalid day"]
      [] OTHER -> [field |-> Time(ParseInt(Slice(data, 0, 4)).v,
                                  ParseInt(Slice(data, 4, 6)).v,
                                  ParseInt(Slice(data, 6, 8)).v),
                   err |-> Nil]

parseFloatStr(fieldStr) ==
    CASE fieldStr = <<>> -> [field |-> NilPtr, err |-> Nil]
      [] fieldStr # <<>> /\ ParseFloat(fieldStr).err # Nil
           -> [field |-> NilPtr, err |-> "invalid numeric"]
      [] OTHER -> [field |-> ParseFloat(fieldStr).v, err |-> Nil]
parseFloat(data) == parseFloatStr(TrimSpace(TrimTrailingZeros(data)))

\* knownLogicalValues
knownLogicalValues ==
    [c \in {63, 70, 78, 84, 89, 102, 110, 116, 121} |->
        CASE c = 63 -> NilPtr
          [] c \in {70, 78, 102, 110} -> BoolValue(FALSE)
          [] OTHER -> BoolValue(TRUE)]

parseLogical(data) ==
    IF Len(data) # 1 \/ data[1] \notin DOMAIN knownLogicalValues
    THEN [field |-> NilPtr, err |-> "invalid logical"]
    ELSE [field |-> knownLogicalValues[data[1]], err |-> Nil]

parseMemo(data) == DBFMemo(TrimSpace(TrimTrailingZeros(data)))

parseNumberStr(fieldStr) ==
    CASE fieldStr = <<>> -> [field |-> NilPtr, err |-> Nil]
      [] fieldStr # <<>> /\ (\E i \in 1..Len(fieldStr) : fieldStr[i] = 46)
           -> IF ParseFloat(fieldStr).err # Nil
              THEN [field |-> NilPtr, err |-> "invalid numeric"]
              ELSE [field |-> ParseFloat(fieldStr).v, err |-> Nil]
      [] OTHER
           -> IF ParseInt(fieldStr).err # Nil
              THEN [field |-> NilPtr, err |-> "invalid numeric"]
              ELSE [field |-> IntValue(ParseInt(fieldStr).v), err |-> Nil]
parseNumber(data) == parseNumberStr(TrimSpace(TrimTrailingZeros(data)))

\* (d *DBFFieldDescriptor).ParseRecord(data, decoder)
ParseRecord(d, data, dec) ==
    CASE d.Type = 67 -> parseCharacter(data, dec)
      [] d.Type = 68 -> parseDate(data)
      [] d.Type = 70 -> parseFloat(data)
      [] d.Type = 76 -> parseLogical(data)
      [] d.Type = 77 -> [field |-> parseMemo(data), err |-> Nil]
      [] d.Type = 78 -> parseNumber(data)
      [] OTHER -> [field |-> NilPtr, err |-> "unsupported field type"]

\* A limit of the options: the field's value, 0 with nil options.
LimitDBF(opts, field) == IF opts = NilPtr THEN 0 ELSE Deref(opts)[field]

\* ParseDBFHeader(data, options): [header, err].
ParseDBFHeader(data, opts) ==
    CASE Len(data) # dbfHeaderLength -> [header |-> NilPtr, err |-> "invalid header length"]
      [] Len(data) = dbfHeaderLength /\ data[1] % 8 # 3
           -> [header |-> NilPtr, err |-> "unsupported version"]
      [] Len(data) = dbfHeaderLength /\ data[1] % 8 = 3 /\ (data[1] \div 8) % 2 = 1
           -> [header |-> NilPtr, err |-> "memo files not supported"]
      [] Len(data) = dbfHeaderLength /\ data[1] % 8 = 3 /\ (data[1] \div 8) % 2 = 0
         /\ data[1] >= 128
           -> [header |-> NilPtr, err |-> ".DBT files are not supported"]
      [] OTHER ->
           CASE /\ LimitDBF(opts, "MaxRecords") # 0
                /\ LittleEndianUint32(Slice(data, 4, 8)) > LimitDBF(opts, "MaxRecords")
                  -> [header |-> NilPtr, err |-> "too many records"]
             [] /\ ~(/\ LimitDBF(opts, "MaxRecords") # 0
                     /\ LittleEndianUint32(Slice(data, 4, 8)) > LimitDBF(opts, "MaxRecords"))
                /\ LimitDBF(opts, "MaxHeaderSize") # 0
                /\ LittleEndianUint16(Slice(data, 8, 10)) > LimitDBF(opts, "MaxHeaderSize")
                  -> [header |-> NilPtr, err |-> "header too large"]
             [] /\ ~(/\ LimitDBF(opts, "MaxRecords") # 0
                     /\ LittleEndianUint32(Slice(data, 4, 8)) > LimitDBF(opts, "MaxRecords"))
                /\ ~(/\ LimitDBF(opts, "MaxHeaderSize") # 0
                     /\ LittleEndianUint16(Slice(data, 8, 10))
                           > LimitDBF(opts, "MaxHeaderSize"))
                /\ LimitDBF(opts, "MaxRecordSize") # 0
                /\ LittleEndianUint16(Slice(data, 10, 12)) > LimitDBF(opts, "MaxRecordSize")
                  -> [header |-> NilPtr, err |-> "records too large"]
             [] OTHER ->
                  [header |-> Ptr([Version |-> data[1] % 8,
                                   Memo |-> FALSE,
                                   DBT |-> FALSE,
                                   LastUpdate |-> Time(data[2] + 1900, data[3], data[4]),
                                   Records |-> LittleEndianUint32(Slice(data, 4, 8)),
                                   HeaderSize |-> LittleEndianUint16(Slice(data, 8, 10)),
                                   RecordSize |-> LittleEndianUint16(Slice(data, 10, 12))]),
                   err |-> Nil]

\* The field descriptor of the 32 bytes data.
FieldDescriptor(data) ==
    [Name |-> TrimTrailingZeros(Slice(data, 0, 11)), Type |-> data[12],
     Length |-> data[17], DecimalCount |-> 0, WorkAreaID |-> data[21],
     SetFields |-> data[24]]

\* The field descriptor loop of ReadDBF and NewScannerDBF:
\* [r, fieldDescriptors, err].
RECURSIVE readFieldDescriptors(_, _)
readFieldDescriptorRest(rd, fds, rest) ==
    CASE rest.err # Nil -> [r |-> rest.r, fieldDescriptors |-> fds, err |-> rest.err]
      [] rest.err = Nil
         /\ lastBytes(rest.r, dbfFieldDescriptorSize)[12] \notin knownFieldTypes
           -> [r |-> rest.r, fieldDescriptors |-> fds, err |-> "invalid field type"]
      [] OTHER ->
           readFieldDescriptors(rest.r,
               Append(fds, FieldDescriptor(lastBytes(rest.r, dbfFieldDescriptorSize))))
readFieldDescriptorFirst(rd, fds, first) ==
    CASE first.err # Nil -> [r |-> first.r, fieldDescriptors |-> fds, err |-> first.err]
      [] first.err = Nil /\ lastBytes(first.r, 1)[1] = 13
           -> [r |-> first.r, fieldDescriptors |-> fds, err |-> Nil]
      [] OTHER ->
           readFieldDescriptorRest(first.r, fds,
               readFull(first.r, dbfFieldDescriptorSize - 1))
readFieldDescriptors(rd, fds) == readFieldDescriptorFirst(rd, fds, readFull(rd, 1))

\* totalLength: the sum of the field descriptors' lengths.
RECURSIVE totalLength(_)
totalLength(fds) ==
    IF fds = <<>> THEN 0 ELSE fds[1].Length + totalLength(Tail(fds))

\* totalLength+1 != header.RecordSize
totalLengthMismatch_Never(fds, hdr) == FALSE
totalLengthMismatch(fds, hdr) == totalLength(fds) + 1 # hdr.RecordSize

\* ReadDBF and NewScannerDBF up to the records:
\* [r, header, fieldDescriptors, decoder, err].
OpenFailed(rd, err) ==
    [r |-> rd, header |-> NilPtr, fieldDescriptors |-> <<>>, decoder |-> NilPtr,
     err |-> err]
openDBFFields(hdr, opts, f) ==
    CASE f.err # Nil -> OpenFailed(f.r, f.err)
      [] f.err = Nil /\ totalLengthMismatch(f.fieldDescriptors, Deref(hdr))
           -> OpenFailed(f.r, "invalid total length of fields")
      [] f.err = Nil /\ ~totalLengthMismatch(f.fieldDescriptors, Deref(hdr))
         /\ newDecoder(opts).err # Nil
           -> OpenFailed(f.r, newDecoder(opts).err)
      [] OTHER -> [r |-> f.r, header |-> hdr, fieldDescriptors |-> f.fieldDescriptors,
                   decoder |-> newDecoder(opts).decoder, err |-> Nil]
openDBFHeader(rd, opts, h) ==
    IF h.err # Nil THEN OpenFailed(rd, h.err)
    ELSE openDBFFields(h.header, opts, readFieldDescriptors(rd, <<>>))
openDBFRead(opts, hd) ==
    IF hd.err # Nil THEN OpenFailed(hd.r, hd.err)
    ELSE openDBFHeader(hd.r, opts, ParseDBFHeader(lastBytes(hd.r, dbfHeaderLength), opts))
openDBF(rd, opts) == openDBFRead(opts, readFull(rd, dbfHeaderLength))

\* The loop over the field descriptors of a present record, from
\* descriptor j at offset: [record, err, panic]. Slicing recordData beyond
\* its length panics, and so does options.SkipBrokenFields with nil
\* options, which is evaluated when a field has failed.
RECURSIVE parseFields(_, _, _, _, _, _, _)
parseField(recordData, fds, j, offset, record, opts, dec, p) ==
    CASE p.err # Nil /\ opts = NilPtr
           -> [record |-> NilPtr, err |-> Nil, panic |-> TRUE]
      [] p.err # Nil /\ opts # NilPtr /\ ~Deref(opts).SkipBrokenFields
           -> [record |-> NilPtr, err |-> p.err, panic |-> FALSE]
      [] OTHER ->
           parseFields(recordData, fds, j + 1, offset + fds[j].Length,
                       Append(record, p.field), opts, dec)
parseFields(recordData, fds, j, offset, record, opts, dec) ==
    CASE j > Len(fds) -> [record |-> Ptr(record), err |-> Nil, panic |-> FALSE]
      [] j <= Len(fds) /\ offset + fds[j].Length > Len(recordData)
           -> [record |-> NilPtr, err |-> Nil, panic |-> TRUE]
      [] OTHER ->
           parseField(recordData, fds, j, offset, record, opts, dec,
               ParseRecord(fds[j], Slice(recordData, offset, offset + fds[j].Length),
                           dec))

\* Reading and decoding one record, as in the loop of ReadDBF and in
\* ScannerDBF.Scan: [r, record, err, panic]; the record of a deleted
\* record is nil.
parseDBFRecord_AnyFlagDeleted(rd, recordData, fds, opts, dec) ==
    CASE recordData[1] = 32 ->
           [r |-> rd] @@ parseFields(recordData, fds, 1, 1, <<>>, opts, dec)
      [] OTHER ->
           [r |-> rd, record |-> NilPtr, err |-> Nil, panic |-> FALSE]
parseDBFRecord(rd, recordData, fds, opts, dec) ==
    CASE recordData[1] = 32 ->
           [r |-> rd] @@ parseFields(recordData, fds, 1, 1, <<>>, opts, dec)
      [] recordData[1] = 42 ->
           [r |-> rd, record |-> NilPtr, err |-> Nil, panic |-> FALSE]
      [] OTHER ->
           [r |-> rd, record |-> NilPtr, err |-> "invalid record flag", panic |-> FALSE]
readDBFRecordData(hdr, fds, opts, dec, rf) ==
    IF rf.err # Nil
    THEN [r |-> rf.r, record |-> NilPtr, err |-> rf.err, panic |-> FALSE]
    ELSE parseDBFRecord(rf.r, lastBytes(rf.r, hdr.RecordSize), fds, opts, dec)
readDBFRecord(rd, hdr, fds, opts, dec) ==
    readDBFRecordData(hdr, fds, opts, dec, readFull(rd, hdr.RecordSize))

---------------------------------------------------------------------------
(* Attribute tables: the streams ReadDBF and NewScannerDBF are given.      *)

MaxDBFRecords == 2   \* records of a table with two fields

PutUint16LE(v) == <<v % 256, v \div 256>>

\* The 32 bytes of a header: the version byte, the last update (2024-01-02),
\* the number of records, the header size and the record size.
DBFHeaderBytes(first, nrec, hsize, rsize) ==
    <<first, 124, 1, 2>> \o PutUint32LE(nrec) \o PutUint16LE(hsize)
    \o PutUint16LE(rsize) \o Zeros(20)

\* The 32 bytes of the descriptor of field k = [Type, Length], named by its
\* type and its position j.
DescriptorBytes(k, j) ==
    <<k.Type, 48 + j>> \o Zeros(9) \o <<k.Type>> \o Zeros(4) \o <<k.Length>> \o Zeros(15)

RECURSIVE DescriptorsBytes(_, _)
DescriptorsBytes(ks, j) ==
    IF j > Len(ks) THEN <<>> ELSE DescriptorBytes(ks[j], j) \o DescriptorsBytes(ks, j + 1)

\* A table: the header for nrec records of rsize bytes, the descriptors of
\* the fields ks, the terminator, the records recs and what follows them.
DBFBytes(first, nrec, rsize, ks, recs, rest) ==
    DBFHeaderBytes(first, nrec, dbfHeaderLength + dbfFieldDescriptorSize * Len(ks) + 1, rsize)
    \o DescriptorsBytes(ks, 1) \o <<13>> \o Concat(recs) \o rest

KindC == [Type |-> 67, Length |-> 2]
KindD == [Type |-> 68, Length |-> 8]
KindDShort == [Type |-> 68, Length |-> 2]
KindF == [Type |-> 70, Length |-> 3]
KindL == [Type |-> 76, Length |-> 1]
KindM == [Type |-> 77, Length |-> 2]
KindN == [Type |-> 78, Length |-> 3]
Kinds == {KindC, KindD, KindDShort, KindF, KindL, KindM, KindN}

\* A value of a field that parses, and one that does not.
GoodSample(k) ==
    CASE k = KindC -> <<97, 98>>                              \* "ab"
      [] k = KindD -> <<50, 48, 50, 52, 48, 49, 48, 50>>      \* "20240102"
      [] k = KindF -> <<49, 46, 53>>                          \* "1.5"
      [] k = KindL -> <<84>>                                  \* "T"
      [] k = KindM -> <<109, 0>>                              \* "m\x00"
      [] k = KindN -> <<32, 49, 50>>                          \* " 12"
BadSample(k) ==
    CASE k = KindD -> <<50, 48, 50, 52, 122, 49, 48, 50>>     \* "2024z102"
      [] k = KindDShort -> <<49, 50>>                         \* "12"
      [] k = KindF -> <<49, 122, 53>>                         \* "1z5"
      [] k = KindL -> <<122>>                                 \* "z"
      [] k = KindN -> <<49, 32, 50>>                          \* "1 2"

\* The values of a field of kind k in the tables of one field.
SamplesOf(k) ==
    CASE k = KindC -> {GoodSample(k), <<32, 97>>}
      [] k = KindD -> {GoodSample(k), BadSample(k),
                       <<50, 122, 50, 52, 48, 49, 48, 50>>,   \* "2z240102"
                       <<50, 48, 50, 52, 48, 49, 32, 50>>,    \* "202401 2"
                       <<45, 48, 50, 52, 49, 51, 52, 48>>}    \* "-0241340"
      [] k = KindDShort -> {BadSample(k)}
      [] k = KindF -> {GoodSample(k), BadSample(k), <<32, 32, 32>>, <<45, 46, 53>>,
                       <<32, 46, 0>>}
      [] k = KindL -> {GoodSample(k), BadSample(k), <<110>>, <<63>>}
      [] k = KindM -> {GoodSample(k)}
      [] k = KindN -> {GoodSample(k), BadSample(k), <<49, 46, 53>>, <<0, 0, 0>>,
                       <<45, 55, 32>>, <<49, 46, 122>>, <<43, 45, 49>>}

\* The flag bytes: ' ', '*' and 'x'.
Flags == {32, 42, 120}

\* Tables of one field and one record.
OneFieldTables ==
    UNION {{[ks |-> <<k>>, recs |-> <<<<f>> \o d>>] : d \in SamplesOf(k), f \in Flags} :
           k \in Kinds}

\* The records of a table of the fields k1, k2: present with each field
\* good or bad, deleted, or with another flag.
PairRecords(k1, k2) ==
    {<<32>> \o GoodSample(k1) \o GoodSample(k2),
     <<32>> \o BadSample(k1) \o GoodSample(k2),
     <<32>> \o GoodSample(k1) \o BadSample(k2),
     <<42>> \o GoodSample(k1) \o GoodSample(k2),
     <<120>> \o GoodSample(k1) \o GoodSample(k2)}

\* Tables of two fields and up to MaxDBFRecords records.
TwoFieldTables ==
    UNION {{[ks |-> <<kk[1], kk[2]>>, recs |-> recs] :
                recs \in SeqsUpTo(PairRecords(kk[1], kk[2]), MaxDBFRecords)} :
           kk \in {KindD, KindL, KindN} \X {KindD, KindL, KindN}}

\* Tables without fields: the records are their flag bytes.
NoFieldTables ==
    {[ks |-> <<>>, recs |-> recs] : recs \in SeqsUpTo({<<32>>, <<42>>}, MaxDBFRecords)}

Tables == OneFieldTables \cup TwoFieldTables \cup NoFieldTables

\* The record size of the fields ks.
RECURSIVE RecordSizeOf(_)
RecordSizeOf(ks) == IF ks = <<>> THEN 1 ELSE ks[1].Length + RecordSizeOf(Tail(ks))

\* The well-formed stream of table t followed by rest.
TableBytes(t, rest) == DBFBytes(3, Len(t.recs), RecordSizeOf(t.ks), t.ks, t.recs, rest)

DBFOptions(maxHeaderSize, maxRecordSize, maxRecords, skipBrokenFields, charset) ==
    Ptr([MaxHeaderSize |-> maxHeaderSize, MaxRecordSize |-> maxRecordSize,
         MaxRecords |-> maxRecords, SkipBrokenFields |-> skipBrokenFields,
         Charset |-> charset])

DBFOptionsSet ==
    {NilPtr, DBFOptions(0, 0, 0, FALSE, ""), DBFOptions(0, 0, 0, TRUE, "")}

\* One call of ReadDBF or NewScannerDBF.
DBFCall(data, opts, chunk, eofWithData, e) ==
    [r |-> NewReader(data, chunk, eofWithData), options |-> opts, entry |-> e]

DBFEntries == {"ReadDBF", "ScannerDBF"}

\* Well-formed tables, with and without the end of file marker.
TableCalls ==
    {DBFCall(TableBytes(t, rest), opts, BigChunk, FALSE, e) :
        t \in Tables, rest \in {<<>>, <<26>>}, opts \in DBFOptionsSet, e \in DBFEntries}

\* The table the other streams are made from: a Logical and a Numeric
\* field, a good record and a deleted one.
PlainTable ==
    [ks |-> <<KindL, KindN>>,
     recs |-> <<<<32>> \o GoodSample(KindL) \o GoodSample(KindN),
                <<42>> \o GoodSample(KindL) \o GoodSample(KindN)>>]

\* What follows the records: nothing, the marker, another byte, the marker
\* and more, a whole further record.
MarkerCalls ==
    {DBFCall(TableBytes(PlainTable, rest), opts, chunk, eofWithData, e) :
        rest \in {<<>>, <<26>>, <<0>>, <<26, 7>>, <<32>> \o GoodSample(KindL) \o GoodSample(KindN)},
        opts \in DBFOptionsSet, chunk \in {SmallChunk, BigChunk},
        eofWithData \in BOOLEAN, e \in DBFEntries}

\* Headers whose record size or number of records is not that of the
\* stream, and other version bytes.
HeaderFieldCalls ==
    UNION {{DBFCall(DBFBytes(3, Len(t.recs), rsize, t.ks, t.recs, <<26>>), opts,
                    BigChunk, FALSE, e) :
                rsize \in {0, RecordSizeOf(t.ks) - 1, RecordSizeOf(t.ks) + 1,
                           RecordSizeOf(t.ks) + 3},
                opts \in DBFOptionsSet, e \in DBFEntries} :
           t \in {PlainTable, [ks |-> <<>>, recs |-> <<<<32>>>>],
                  [ks |-> <<KindN>>, recs |-> <<<<32>> \o BadSample(KindN)>>]}}
    \cup
    {DBFCall(DBFBytes(first, nrec, RecordSizeOf(PlainTable.ks), PlainTable.ks,
                      PlainTable.recs, <<26>>), opts, BigChunk, FALSE, e) :
        first \in {3, 4, 11, 131, 139}, nrec \in 0..3,
        opts \in DBFOptionsSet, e \in DBFEntries}

\* The limits and the charset of the options.
LimitCalls ==
    {DBFCall(TableBytes(PlainTable, <<26>>), opts, BigChunk, FALSE, e) :
        opts \in {DBFOptions(h, rs, n, FALSE, c) :
                    h \in {0, 96, 97}, rs \in {0, 4, 5}, n \in {0, 1, 2},
                    c \in {"", "utf-8", "no-such-charset"}},
        e \in DBFEntries}

\* A descriptor with a type that is not known.
FieldTypeCalls ==
    {DBFCall(DBFBytes(3, 1, 3, <<KindL, [Type |-> ty, Length |-> 1]>>,
                      <<<<32, 84, 84>>>>, <<>>), opts, BigChunk, FALSE, e) :
        ty \in {0, 88, 99}, opts \in DBFOptionsSet, e \in DBFEntries}

\* Streams that end early.
CutCalls ==
    {DBFCall(SubSeq(TableBytes(PlainTable, <<26>>), 1, n), opts, chunk, eofWithData, e) :
        n \in {0, 10, 32, 33, 50, 64, 96, 97, 100, 102, 105},
        opts \in {NilPtr}, chunk \in {SmallChunk, BigChunk}, eofWithData \in BOOLEAN,
        e \in DBFEntries}

\* Headers that declare a header size other than the 97 bytes the header,
\* the two descriptors and the terminator take, without and with a limit.
HeaderSizeCalls ==
    {DBFCall(DBFHeaderBytes(3, Len(PlainTable.recs), hsize, RecordSizeOf(PlainTable.ks))
             \o DescriptorsBytes(PlainTable.ks, 1) \o <<13>> \o Concat(PlainTable.recs)
             \o <<26>>,
             opts, BigChunk, FALSE, e) :
        hsize \in {0, 33, 65, 129},
        opts \in {NilPtr, DBFOptions(40, 0, 0, FALSE, ""), DBFOptions(97, 0, 0, FALSE, "")},
        e \in DBFEntries}

DBFCalls ==
    TableCalls \cup MarkerCalls \cup HeaderFieldCalls \cup LimitCalls
    \cup FieldTypeCalls \cup CutCalls \cup HeaderSizeCalls

---------------------------------------------------------------------------
(* ReadDBF, NewScannerDBF and ScannerDBF.Scan.                             *)

\* No .shp stream is being read.
SHPIdle ==
    /\ r = [data |-> <<>>, off |-> 0, chunk |-> 1, eofWithData |-> FALSE]
    /\ fileLength = 0
    /\ options = NilPtr
    /\ entry = "none"
    /\ pc = "idle"
    /\ header = NilPtr
    /\ recordNumber = 0
    /\ records = <<>>
    /\ ret = NotReturned
    /\ scanner = NilPtr
    /\ scanned = NotScanned
    /\ calls = 0

InitDBF ==
    /\ SHPIdle
    /\ AssemblyIdle
    /\ FunctionsIdle
    /\ \E c \in DBFCalls :
           /\ dbfR = c.r
           /\ dbfOptions = c.options
           /\ dbfEntry = c.entry
           /\ dbfPc = "start"
           /\ dbfHeader = NilPtr
           /\ fieldDescriptors = <<>>
           /\ decoder = NilPtr
           /\ dbfRecords = <<>>
           /\ dbfRet = [dbf |-> NilPtr, err |-> Nil, panic |-> FALSE]
           /\ scannerDBF = NilPtr
           /\ scannedDBF = [record |-> NilPtr, err |-> Nil, panic |-> FALSE]
           /\ dbfCalls = 0

\* ReadDBF up to its loop over the records. (Its check of header.Version
\* repeats the one of ParseDBFHeader.)
ReadDBFOpened(o) ==
    /\ dbfR' = o.r
    /\ IF o.err # Nil
       THEN /\ dbfRet' = [dbf |-> NilPtr, err |-> o.err, panic |-> FALSE]
            /\ dbfPc' = "done"
            /\ UNCHANGED <<dbfHeader, fieldDescriptors, decoder>>
       ELSE /\ dbfHeader' = o.header
            /\ fieldDescriptors' = o.fieldDescriptors
            /\ decoder' = o.decoder
            /\ dbfPc' = "records"
            /\ UNCHANGED dbfRet
ReadDBFOpen ==
    /\ dbfPc = "start"
    /\ dbfEntry = "ReadDBF"
    /\ ReadDBFOpened(openDBF(dbfR, dbfOptions))
    /\ UNCHANGED <<dbfOptions, dbfEntry, dbfRecords, scannerDBF, scannedDBF, dbfCalls>>
    /\ UNCHANGED <<shpVars, asmVars, fnVars>>

\* One iteration of ReadDBF's loop over the records, on the result res of
\* reading and decoding the record. The error of a failed field is wrapped
\* ("field NAME: ..."); dbfRet.err is the wrapped error's cause.
ReadDBFSwitch(res) ==
    /\ dbfR' = res.r
    /\ CASE res.panic ->
              /\ dbfRet' = [dbf |-> NilPtr, err |-> Nil, panic |-> TRUE]
              /\ dbfPc' = "done"
              /\ UNCHANGED dbfRecords
         [] ~res.panic /\ res.err # Nil ->
              /\ dbfRet' = [dbf |-> NilPtr, err |-> res.err, panic |-> FALSE]
              /\ dbfPc' = "done"
              /\ UNCHANGED dbfRecords
         [] OTHER ->
              /\ dbfRecords' = Append(dbfRecords, res.record)
              /\ UNCHANGED <<dbfRet, dbfPc>>
ReadDBFRecordLoop ==
    /\ dbfPc = "records"
    /\ Len(dbfRecords) < Deref(dbfHeader).Records
    /\ ReadDBFSwitch(readDBFRecord(dbfR, Deref(dbfHeader), fieldDescriptors, dbfOptions,
                                   decoder))
    /\ UNCHANGED <<dbfOptions, dbfEntry, dbfHeader, fieldDescriptors, decoder,
                   scannerDBF, scannedDBF, dbfCalls>>
    /\ UNCHANGED <<shpVars, asmVars, fnVars>>

\* errors.Is(err, io.EOF) after reading the end of file marker: a missing
\* marker is ignored.
markerMissing_Never(err) == FALSE
markerMissing(err) == err = EOF

\* ReadDBF after its loop: the end of file marker, given the result m of
\* reading one byte, and the return.
ReadDBFMarked(m) ==
    /\ dbfR' = m.r
    /\ dbfPc' = "done"
    /\ CASE markerMissing(m.err) ->
              dbfRet' = [dbf |-> Ptr([DBFHeader |-> Deref(dbfHeader),
                                      FieldDescriptors |-> fieldDescriptors,
                                      Records |-> dbfRecords]),
                         err |-> Nil, panic |-> FALSE]
         [] ~markerMissing(m.err) /\ m.err # Nil ->
              dbfRet' = [dbf |-> NilPtr, err |-> m.err, panic |-> FALSE]
         [] ~markerMissing(m.err) /\ m.err = Nil /\ lastBytes(m.r, 1)[1] # 26 ->
              dbfRet' = [dbf |-> NilPtr, err |-> "invalid end of file marker",
                         panic |-> FALSE]
         [] OTHER ->
              dbfRet' = [dbf |-> Ptr([DBFHeader |-> Deref(dbfHeader),
                                      FieldDescriptors |-> fieldDescriptors,
                                      Records |-> dbfRecords]),
                         err |-> Nil, panic |-> FALSE]
ReadDBFMarker ==
    /\ dbfPc = "records"
    /\ Len(dbfRecords) >= Deref(dbfHeader).Records
    /\ ReadDBFMarked(readFull(dbfR, 1))
    /\ UNCHANGED <<dbfOptions, dbfEntry, dbfHeader, fieldDescriptors, decoder,
                   dbfRecords, scannerDBF, scannedDBF, dbfCalls>>
    /\ UNCHANGED <<shpVars, asmVars, fnVars>>

\* NewScannerDBF(reader, options).
NewScannerDBFOpened(o) ==
    IF o.err # Nil
    THEN /\ dbfR' = o.r
         /\ dbfRet' = [dbf |-> NilPtr, err |-> o.err, panic |-> FALSE]
         /\ dbfPc' = "done"
         /\ UNCHANGED <<dbfHeader, fieldDescriptors, decoder, scannerDBF>>
    ELSE /\ dbfR' = bufioNewReader(o.r)
         /\ dbfHeader' = o.header
         /\ fieldDescriptors' = o.fieldDescriptors
         /\ decoder' = o.decoder
         /\ scannerDBF' = Ptr([scanRecords |-> 0, err |-> Nil])
         /\ dbfPc' = "scan"
         /\ UNCHANGED dbfRet
NewScannerDBF ==
    /\ dbfPc = "start"
    /\ dbfEntry = "ScannerDBF"
    /\ NewScannerDBFOpened(openDBF(dbfR, dbfOptions))
    /\ UNCHANGED <<dbfOptions, dbfEntry, dbfRecords, scannedDBF, dbfCalls>>
    /\ UNCHANGED <<shpVars, asmVars, fnVars>>

\* ScannerDBF.Scan on the result res of reading and decoding a record: a
\* deleted record is returned as nil and is not counted.
ScanDBFSwitch(res) ==
    /\ dbfR' = res.r
    /\ CASE res.panic ->
              /\ scannedDBF' = [record |-> NilPtr, err |-> Nil, panic |-> TRUE]
              /\ UNCHANGED scannerDBF
         [] ~res.panic /\ res.err # Nil ->
              /\ scannerDBF' = Ptr([Deref(scannerDBF) EXCEPT !.err = res.err])
              /\ scannedDBF' = [record |-> NilPtr, err |-> res.err, panic |-> FALSE]
         [] ~res.panic /\ res.err = Nil /\ res.record = NilPtr ->
              /\ scannedDBF' = [record |-> NilPtr, err |-> Nil, panic |-> FALSE]
              /\ UNCHANGED scannerDBF
         [] OTHER ->
              /\ scannerDBF' = Ptr([Deref(scannerDBF) EXCEPT !.scanRecords = @ + 1])
              /\ scannedDBF' = [record |-> res.record, err |-> Nil, panic |-> FALSE]
ScannerDBFScan ==
    /\ dbfPc = "scan"
    /\ dbfCalls < MaxCalls
    /\ dbfCalls' = dbfCalls + 1
    /\ IF Deref(scannerDBF).err # Nil
       THEN /\ scannedDBF' = [record |-> NilPtr, err |-> Deref(scannerDBF).err,
                              panic |-> FALSE]
            /\ UNCHANGED <<dbfR, scannerDBF>>
       ELSE ScanDBFSwitch(readDBFRecord(dbfR, Deref(dbfHeader), fieldDescriptors,
                                        dbfOptions, decoder))
    /\ UNCHANGED <<dbfOptions, dbfEntry, dbfPc, dbfHeader, fieldDescriptors, decoder,
                   dbfRecords, dbfRet>>
    /\ UNCHANGED <<shpVars, asmVars, fnVars>>

NextDBF ==
    ReadDBFOpen \/ ReadDBFRecordLoop \/ ReadDBFMarker \/ NewScannerDBF \/ ScannerDBFScan

SpecDBF == InitDBF /\ [][NextDBF]_vars

---------------------------------------------------------------------------
(* The table as the stream stores it, read off the bytes of dbfR.data.     *)

\* The number of field descriptors before the terminator 0x0D.
StoredFieldCount ==
    SetMin({n \in 0..(Len(dbfR.data) \div 32) :
               Len(dbfR.data) >= 32 * n + 33 => dbfR.data[32 * n + 33] = 13})
StoredHeaderEnd == 32 * StoredFieldCount + 33
StoredRecords == LittleEndianUint32(SubSeq(dbfR.data, 5, 8))
StoredRecordSize == dbfR.data[11] + 256 * dbfR.data[12]
StoredFieldType(j) == dbfR.data[32 * j + 12]
StoredFieldLength(j) == dbfR.data[32 * j + 17]
\* The sum of the lengths of the fields before field j.
RECURSIVE StoredLengthBefore(_)
StoredLengthBefore(j) ==
    IF j <= 1 THEN 0 ELSE StoredLengthBefore(j - 1) + StoredFieldLength(j - 1)
\* The flag byte of record i (from 1), and the bytes of its field j when
\* the fields follow the flag byte one after the other.
StoredFlag(i) == dbfR.data[StoredHeaderEnd + (i - 1) * StoredRecordSize + 1]
StoredField(i, j) ==
    SubSeq(dbfR.data,
           StoredHeaderEnd + (i - 1) * StoredRecordSize + 1 + StoredLengthBefore(j) + 1,
           StoredHeaderEnd + (i - 1) * StoredRecordSize + 1 + StoredLengthBefore(j)
               + StoredFieldLength(j))
\* The value ParseRecord gives the bytes b of a field of type ty.
StoredValue(ty, b) ==
    ParseRecord([Type |-> ty], b, Ptr("ISO8859_1")).field
StoredFails(ty, b) ==
    ParseRecord([Type |-> ty], b, Ptr("ISO8859_1")).err # Nil

\* The table was opened: header and descriptors were accepted.
DBFOpened == dbfHeader # NilPtr

(* C13. ReadDBF and NewScannerDBF accept the header and the descriptors    *)
(* only if the sum of the descriptors' lengths plus 1 is the header's      *)
(* record size; a mismatch is reported once the terminator of the          *)
(* descriptor list has been read and before any byte of a record is read;  *)
(* and field j of every decoded record is decoded from the bytes that      *)
(* follow those of field j-1, the first after the flag byte and the last   *)
(* ending with the record, without a slice out of the record's range.      *)
C13_FieldsTileRecord ==
    /\ DBFOpened =>
         /\ StoredLengthBefore(StoredFieldCount + 1) + 1 = StoredRecordSize
         /\ Len(fieldDescriptors) = StoredFieldCount
    /\ (dbfRet.err = "invalid total length of fields") =>
         /\ dbfR.off = StoredHeaderEnd
         /\ StoredLengthBefore(StoredFieldCount + 1) + 1 # StoredRecordSize
         /\ dbfRecords = <<>> /\ scannerDBF = NilPtr
    /\ \A i \in 1..Len(dbfRecords) :
         dbfRecords[i] # NilPtr =>
            /\ Len(Deref(dbfRecords[i])) = StoredFieldCount
            /\ \A j \in 1..StoredFieldCount :
                  /\ Len(StoredField(i, j)) = StoredFieldLength(j)
                  /\ Deref(dbfRecords[i])[j]
                        = StoredValue(StoredFieldType(j), StoredField(i, j))
    /\ (dbfRet.panic \/ scannedDBF.panic) => dbfOptions = NilPtr

\* ReadDBF returned a table of two fields of different lengths with a
\* present record.
C13_Witness ==
    /\ dbfRet.dbf # NilPtr
    /\ StoredFieldCount = 2
    /\ StoredFieldLength(1) # StoredFieldLength(2)
    /\ \E i \in 1..Len(dbfRecords) : dbfRecords[i] # NilPtr

\* The record ReadDBF's loop or ScannerDBF.Scan is about to read, and what
\* reading and decoding it gives.
DBFReading ==
    \/ dbfPc = "records" /\ Len(dbfRecords) < Deref(dbfHeader).Records
    \/ dbfPc = "scan" /\ Deref(scannerDBF).err = Nil /\ dbfCalls < MaxCalls
AheadDBFWhole == Len(dbfR.data) - dbfR.off >= StoredRecordSize
AheadFlag == dbfR.data[dbfR.off + 1]
AheadField(j) ==
    SubSeq(dbfR.data, dbfR.off + 1 + StoredLengthBefore(j) + 1,
           dbfR.off + 1 + StoredLengthBefore(j) + StoredFieldLength(j))
AheadFieldFails(j) == StoredFails(StoredFieldType(j), AheadField(j))
NextDBFRecord == readDBFRecord(dbfR, Deref(dbfHeader), fieldDescriptors, dbfOptions, decoder)

(* C14. With nil options or SkipBrokenFields false, a present record one   *)
(* of whose fields fails to parse makes ReadDBF return an error and no     *)
(* DBF, without a panic.                                                   *)
C14_DefaultFieldFailureIsError ==
    (/\ dbfPc = "records" /\ DBFReading /\ AheadDBFWhole /\ AheadFlag = 32
     /\ (dbfOptions = NilPtr \/ ~Deref(dbfOptions).SkipBrokenFields)
     /\ \E j \in 1..StoredFieldCount : AheadFieldFails(j))
    => /\ ~NextDBFRecord.panic
       /\ NextDBFRecord.err # Nil
       /\ NextDBFRecord.record = NilPtr

(* C15. With SkipBrokenFields true, a present record is decoded to one     *)
(* value per field descriptor without an error, and the value of every     *)
(* field that fails to parse, whatever its type, is nil.                   *)
C15_PermissiveFieldIsNil ==
    (/\ DBFReading /\ AheadDBFWhole /\ AheadFlag = 32
     /\ dbfOptions # NilPtr /\ Deref(dbfOptions).SkipBrokenFields)
    => /\ ~NextDBFRecord.panic
       /\ NextDBFRecord.err = Nil
       /\ NextDBFRecord.record # NilPtr
       /\ Len(Deref(NextDBFRecord.record)) = StoredFieldCount
       /\ \A j \in 1..StoredFieldCount :
             AheadFieldFails(j) => Deref(NextDBFRecord.record)[j] = NilPtr

(* C16. A DBF that ReadDBF returns has as many records as the header       *)
(* declares, in the order of the stream: record i is nil if and only if    *)
(* the flag byte of record i is '*', and has one value per field           *)
(* descriptor otherwise; a record whose flag byte is neither ' ' nor '*'   *)
(* makes ReadDBF fail with "invalid record flag".                          *)
C16_RecordsAsDeclared ==
    /\ dbfRet.dbf # NilPtr =>
         /\ Len(Deref(dbfRet.dbf).Records) = StoredRecords
         /\ \A i \in 1..StoredRecords :
               /\ Deref(dbfRet.dbf).Records[i] = NilPtr <=> StoredFlag(i) = 42
               /\ Deref(dbfRet.dbf).Records[i] # NilPtr =>
                     /\ StoredFlag(i) = 32
                     /\ Len(Deref(Deref(dbfRet.dbf).Records[i])) = StoredFieldCount
                     /\ \A j \in 1..StoredFieldCount :
                           Deref(Deref(dbfRet.dbf).Records[i])[j]
                              = StoredValue(StoredFieldType(j), StoredField(i, j))
    /\ (dbfPc = "records" /\ DBFReading /\ AheadDBFWhole /\ AheadFlag \notin {32, 42}) =>
         /\ NextDBFRecord.err = "invalid record flag"
         /\ ~NextDBFRecord.panic
    /\ (dbfEntry = "ReadDBF" /\ dbfRet.err = "invalid record flag") =>
         StoredFlag(Len(dbfRecords) + 1) \notin {32, 42}

\* ReadDBF returned a table whose first record is present and whose second
\* is deleted.
C16_Witness ==
    /\ dbfRet.dbf # NilPtr
    /\ Len(Deref(dbfRet.dbf).Records) = 2
    /\ StoredFieldCount = 2
    /\ Deref(dbfRet.dbf).Records[1] # NilPtr
    /\ Deref(dbfRet.dbf).Records[2] = NilPtr

(* C17. Once ReadDBF has read the declared number of records, it returns   *)
(* the DBF if the stream is at its end or its next byte is 0x1A, and fails *)
(* with "invalid end of file marker" if the next byte is another one.      *)
\* ReadDBF has returned after its loop over the records.
AfterMarker ==
    /\ dbfEntry = "ReadDBF" /\ dbfPc = "done" /\ DBFOpened
    /\ Len(dbfRecords) = StoredRecords
\* The offset at which the records end.
StoredRecordsEnd == StoredHeaderEnd + StoredRecords * StoredRecordSize
C17_EndOfFileMarker ==
    AfterMarker =>
       CASE Len(dbfR.data) = StoredRecordsEnd ->
              dbfRet.dbf # NilPtr /\ dbfRet.err = Nil
         [] Len(dbfR.data) > StoredRecordsEnd /\ dbfR.data[StoredRecordsEnd + 1] = 26 ->
              dbfRet.dbf # NilPtr /\ dbfRet.err = Nil
         [] Len(dbfR.data) > StoredRecordsEnd /\ dbfR.data[StoredRecordsEnd + 1] # 26 ->
              dbfRet.dbf = NilPtr /\ dbfRet.err = "invalid end of file marker"

\* ReadDBF returned a table with records from a stream without the marker.
C17_Witness ==
    /\ AfterMarker
    /\ StoredRecords > 0
    /\ Len(dbfR.data) = StoredRecordsEnd
    /\ dbfRet.dbf # NilPtr

---------------------------------------------------------------------------
(* The shapefile: ReadSHP, ReadDBF and ReadSHX as whole functions, the     *)
(* entry points that assemble their results, and the Scanner.              *)
(* A Read of no bytes at the end of a stream reports io.EOF here, as the   *)
(* reader of a zip entry does.                                             *)

\* ReadSHP(r, fileLength, options): [shp, err, panic].
RECURSIVE ReadSHPRecords(_, _, _, _, _)
ReadSHPRecordsNext(opts, hdr, number, recs, res) ==
    CASE res.panic -> [shp |-> NilPtr, err |-> Nil, panic |-> TRUE]
      [] ~res.panic /\ res.err = EOF ->
           [shp |-> Ptr([SHxHeader |-> Deref(hdr), Records |-> recs]),
            err |-> Nil, panic |-> FALSE]
      [] ~res.panic /\ res.err \notin {Nil, EOF} ->
           [shp |-> NilPtr, err |-> res.err, panic |-> FALSE]
      [] ~res.panic /\ res.err = Nil /\ NumberMismatch(Deref(res.record), number) ->
           [shp |-> NilPtr, err |-> "invalid record number", panic |-> FALSE]
      [] OTHER -> ReadSHPRecords(res.r, opts, hdr, number + 1, Append(recs, res.record))
ReadSHPRecords(rd, opts, hdr, number, recs) ==
    ReadSHPRecordsNext(opts, hdr, number, recs, ReadSHPRecord(rd, opts))
ReadSHPFrom(opts, h) ==
    IF h.err # Nil THEN [shp |-> NilPtr, err |-> h.err, panic |-> FALSE]
    ELSE ReadSHPRecords(h.r, opts, h.header, 1, <<>>)
ReadSHP(rd, fileLen, opts) == ReadSHPFrom(opts, readSHxHeader(rd, fileLen))

\* ReadDBF(r, size, options): [dbf, err, panic].
RECURSIVE ReadDBFRecords(_, _, _, _, _, _)
ReadDBFMarkerRead(hdr, fds, recs, m) ==
    CASE markerMissing(m.err) ->
           [dbf |-> Ptr([DBFHeader |-> hdr, FieldDescriptors |-> fds, Records |-> recs]),
            err |-> Nil, panic |-> FALSE]
      [] ~markerMissing(m.err) /\ m.err # Nil ->
           [dbf |-> NilPtr, err |-> m.err, panic |-> FALSE]
      [] ~markerMissing(m.err) /\ m.err = Nil /\ lastBytes(m.r, 1)[1] # 26 ->
           [dbf |-> NilPtr, err |-> "invalid end of file marker", panic |-> FALSE]
      [] OTHER ->
           [dbf |-> Ptr([DBFHeader |-> hdr, FieldDescriptors |-> fds, Records |-> recs]),
            err |-> Nil, panic |-> FALSE]
ReadDBFRecordsNext(hdr, fds, opts, dec, recs, res) ==
    CASE res.panic -> [dbf |-> NilPtr, err |-> Nil, panic |-> TRUE]
      [] ~res.panic /\ res.err # Nil -> [dbf |-> NilPtr, err |-> res.err, panic |-> FALSE]
      [] OTHER -> ReadDBFRecords(res.r, hdr, fds, opts, dec, Append(recs, res.record))
ReadDBFRecords(rd, hdr, fds, opts, dec, recs) ==
    IF Len(recs) >= hdr.Records
    THEN ReadDBFMarkerRead(hdr, fds, recs, readFull(rd, 1))
    ELSE ReadDBFRecordsNext(hdr, fds, opts, dec, recs,
                            readDBFRecord(rd, hdr, fds, opts, dec))
ReadDBFFrom(opts, o) ==
    IF o.err # Nil THEN [dbf |-> NilPtr, err |-> o.err, panic |-> FALSE]
    ELSE ReadDBFRecords(o.r, Deref(o.header), o.fieldDescriptors, opts, o.decoder, <<>>)
ReadDBF(rd, opts) == ReadDBFFrom(opts, openDBF(rd, opts))

\* ParseSHXRecord(data)
ParseSHXRecord(data) ==
    [Offset |-> 2 * BigEndianUint32(Slice(data, 0, 4)),
     ContentLength |-> 2 * BigEndianUint32(Slice(data, 4, 8))]

\* ReadSHX(r, size): [shx, err, panic].
ReadSHXData(hdr, size, f) ==
    IF f.err # Nil THEN [shx |-> NilPtr, err |-> f.err, panic |-> FALSE]
    ELSE [shx |-> Ptr([SHxHeader |-> Deref(hdr),
                       Records |-> [i \in 1..((size - headerSize) \div 8) |->
                                       ParseSHXRecord(
                                           Slice(lastBytes(f.r, size - headerSize),
                                                 8 * (i - 1), 8 * i))]]),
          err |-> Nil, panic |-> FALSE]
ReadSHXFrom(size, h) ==
    CASE h.err # Nil -> [shx |-> NilPtr, err |-> h.err, panic |-> FALSE]
      [] h.err = Nil /\ size < headerSize -> [shx |-> NilPtr, err |-> Nil, panic |-> TRUE]
      [] OTHER -> ReadSHXData(h.header, size, readFull(h.r, size - headerSize))
ReadSHX(rd, size) == ReadSHXFrom(size, readSHxHeader(rd, size))

\* errors.Join(errs...): the errors that are not nil, none being nil.
Join(errs) == SelectSeq(errs, LAMBDA e : e # Nil)
\* errors.Is(err, io.EOF) of joined errors: one of them is io.EOF.
IsEOF(joined) == \E i \in 1..Len(joined) : joined[i] = EOF

\* The file of the given bytes, opened: the reader and the size.
FileReader(file) == NewReader(Deref(file), BigChunk, FALSE)
FileSize(file) == Len(Deref(file))

\* options.DBF and options.SHP of *ReadShapefileOptions.
OptionsDBF(o) == IF o = NilPtr THEN NilPtr ELSE Deref(o).DBF
OptionsSHP(o) == IF o = NilPtr THEN NilPtr ELSE Deref(o).SHP

\* Reading one file of a shapefile, when it exists: [part, err, panic].
NoPart == [part |-> NilPtr, err |-> Nil, panic |-> FALSE]
PartDBFOf(res) == [part |-> res.dbf, err |-> res.err, panic |-> res.panic]
PartSHPOf(res) == [part |-> res.shp, err |-> res.err, panic |-> res.panic]
PartSHXOf(res) == [part |-> res.shx, err |-> res.err, panic |-> res.panic]
PartDBF(fs, o) ==
    IF fs.dbf = NilPtr THEN NoPart
    ELSE PartDBFOf(ReadDBF(FileReader(fs.dbf), OptionsDBF(o)))
PartSHP(fs, o) ==
    IF fs.shp = NilPtr THEN NoPart
    ELSE PartSHPOf(ReadSHP(FileReader(fs.shp), FileSize(fs.shp), OptionsSHP(o)))
PartSHX(fs) ==
    IF fs.shx = NilPtr THEN NoPart
    ELSE PartSHXOf(ReadSHX(FileReader(fs.shx), FileSize(fs.shx)))

\* The check of Read and ReadZipReader on the parts that are there.
Inconsistent(dbf, shp, shx) ==
    \/ dbf # NilPtr /\ shp # NilPtr /\ Len(Deref(dbf).Records) # Len(Deref(shp).Records)
    \/ dbf # NilPtr /\ shx # NilPtr /\ Len(Deref(dbf).Records) # Len(Deref(shx).Records)
    \/ shp # NilPtr /\ shx # NilPtr /\ Len(Deref(shp).Records) # Len(Deref(shx).Records)

\* What an entry point returns that reads the parts first, second and
\* third in this order, returning at the first error, and then checks the
\* numbers of records or does not: [shapefile, err, panic]. (No .cpg and no
\* .prj file exists.)
Failure(err) == [shapefile |-> NilPtr, err |-> <<err>>, panic |-> FALSE]
Crash == [shapefile |-> NilPtr, err |-> <<>>, panic |-> TRUE]
Assemble(checked, first, second, third, d, p, x) ==
    IF first.panic THEN Crash
    ELSE IF first.err # Nil THEN Failure(first.err)
    ELSE IF second.panic THEN Crash
    ELSE IF second.err # Nil THEN Failure(second.err)
    ELSE IF third.panic THEN Crash
    ELSE IF third.err # Nil THEN Failure(third.err)
    ELSE IF checked /\ Inconsistent(d.part, p.part, x.part)
         THEN Failure("inconsistent number of records")
    ELSE [shapefile |-> Ptr([DBF |-> d.part, SHP |-> p.part, SHX |-> x.part]),
          err |-> <<>>, panic |-> FALSE]

\* NewScannerSHP, NewScannerDBF, NewScannerSHX for a file that exists:
\* the reader, what the scanner holds, and the error.
NoScanner(rd) ==
    [r |-> rd, header |-> NilPtr, fieldDescriptors |-> <<>>, decoder |-> NilPtr,
     scanner |-> NilPtr, err |-> Nil]
OpenedSHx(h) ==
    IF h.err # Nil THEN [NoScanner(h.r) EXCEPT !.err = h.err]
    ELSE [NoScanner(bufioNewReader(h.r)) EXCEPT
             !.header = h.header,
             !.scanner = Ptr([header |-> h.header, scanRecords |-> 0, err |-> Nil])]
OpenedDBF(o) ==
    IF o.err # Nil THEN [NoScanner(o.r) EXCEPT !.err = o.err]
    ELSE [r |-> bufioNewReader(o.r), header |-> o.header,
          fieldDescriptors |-> o.fieldDescriptors, decoder |-> o.decoder,
          scanner |-> Ptr([scanRecords |-> 0, err |-> Nil]), err |-> Nil]
OpenSHP(fs) ==
    IF fs.shp = NilPtr THEN NoScanner(FileReader(Ptr(<<>>)))
    ELSE OpenedSHx(readSHxHeader(FileReader(fs.shp), FileSize(fs.shp)))
OpenDBF(fs, o) ==
    IF fs.dbf = NilPtr THEN NoScanner(FileReader(Ptr(<<>>)))
    ELSE OpenedDBF(openDBF(FileReader(fs.dbf), OptionsDBF(o)))
OpenSHX(fs) ==
    IF fs.shx = NilPtr THEN NoScanner(FileReader(Ptr(<<>>)))
    ELSE OpenedSHx(readSHxHeader(FileReader(fs.shx), FileSize(fs.shx)))

\* The Scan of a sub-scanner sc, nil or not: [r, scanner, record, err,
\* panic], scanner being the sub-scanner afterwards.
NotScanning(rd) ==
    [r |-> rd, scanner |-> NilPtr, record |-> NilPtr, err |-> Nil, panic |-> FALSE]
Scanned(rd, sc, record, err) ==
    [r |-> rd, scanner |-> Ptr(sc), record |-> record, err |-> err, panic |-> FALSE]
ScanSHPRead(sc, res) ==
    CASE res.panic -> [NotScanning(res.r) EXCEPT !.panic = TRUE]
      [] ~res.panic /\ res.err = EOF ->
           Scanned(res.r, [sc EXCEPT !.err = EOF], NilPtr, EOF)
      [] ~res.panic /\ res.err \notin {Nil, EOF} ->
           Scanned(res.r, [sc EXCEPT !.err = res.err], NilPtr, res.err)
      [] ~res.panic /\ res.err = Nil
         /\ NumberMismatch(Deref(res.record), sc.scanRecords + 1) ->
           Scanned(res.r, [sc EXCEPT !.err = "invalid record number"], NilPtr,
                   "invalid record number")
      [] OTHER ->
           Scanned(res.r, [sc EXCEPT !.scanRecords = @ + 1], res.record, Nil)
ScanSHP(rd, sc, opts) ==
    CASE sc = NilPtr -> NotScanning(rd)
      [] sc # NilPtr /\ Deref(sc).err # Nil -> Scanned(rd, Deref(sc), NilPtr, Deref(sc).err)
      [] OTHER -> ScanSHPRead(Deref(sc), ReadSHPRecord(rd, opts))
ScanDBFRead(sc, res) ==
    CASE res.panic -> [NotScanning(res.r) EXCEPT !.panic = TRUE]
      [] ~res.panic /\ res.err # Nil ->
           Scanned(res.r, [sc EXCEPT !.err = res.err], NilPtr, res.err)
      [] ~res.panic /\ res.err = Nil /\ res.record = NilPtr ->
           Scanned(res.r, sc, NilPtr, Nil)
      [] OTHER ->
           Scanned(res.r, [sc EXCEPT !.scanRecords = @ + 1], res.record, Nil)
ScanDBF(rd, sc, hdr, fds, opts, dec) ==
    CASE sc = NilPtr -> NotScanning(rd)
      [] sc # NilPtr /\ Deref(sc).err # Nil -> Scanned(rd, Deref(sc), NilPtr, Deref(sc).err)
      [] OTHER -> ScanDBFRead(Deref(sc), readDBFRecord(rd, Deref(hdr), fds, opts, dec))
ScanSHXRead(sc, f) ==
    IF f.err # Nil THEN Scanned(f.r, [sc EXCEPT !.err = f.err], NilPtr, f.err)
    ELSE Scanned(f.r, [sc EXCEPT !.scanRecords = @ + 1],
                 Ptr(ParseSHXRecord(lastBytes(f.r, 8))), Nil)
ScanSHX(rd, sc) ==
    CASE sc = NilPtr -> NotScanning(rd)
      [] sc # NilPtr /\ Deref(sc).err # Nil -> Scanned(rd, Deref(sc), NilPtr, Deref(sc).err)
      [] OTHER -> ScanSHXRead(Deref(sc), readFull(rd, 8))

---------------------------------------------------------------------------
(* The files of a shapefile.                                               *)

\* A .shp file of the given records, whose header has the file's length.
SHPFile(recs) ==
    HeaderBytes(fileCode, (headerSize + Len(Concat(recs))) \div 2, version, ShapeTypePoint)
    \o Concat(recs)
\* A point record with the given number, and one whose content length is
\* a word short.
PointRecord(number) ==
    RecordBytes(number, 10,
                PutUint32LE(ShapeTypePoint) \o PutFloat64(F(1)) \o PutFloat64(F(2)))
ShortPointRecord(number) ==
    RecordBytes(number, 9,
                PutUint32LE(ShapeTypePoint) \o PutFloat64(F(1)) \o Zeros(6))
SHPFiles ==
    {SHPFile(<<>>), SHPFile(<<PointRecord(1)>>),
     SHPFile(<<PointRecord(1), PointRecord(2)>>),
     SHPFile(<<PointRecord(1), PointRecord(3)>>),
     SHPFile(<<PointRecord(1), ShortPointRecord(2)>>),
     SHPFile(<<ShortPointRecord(1)>>),
     SHPFile(<<PointRecord(1), <<0, 0, 0, 2, 0, 0>>>>),
     Zeros(headerSize)}

\* A .dbf file of a Logical and a Numeric field with the given records.
PresentRecord == <<32>> \o GoodSample(KindL) \o GoodSample(KindN)
DeletedRecord == <<42>> \o GoodSample(KindL) \o GoodSample(KindN)
BrokenRecord == <<32>> \o GoodSample(KindL) \o BadSample(KindN)
FlaggedRecord == <<120>> \o GoodSample(KindL) \o GoodSample(KindN)
DBFFile(recs) == TableBytes([ks |-> <<KindL, KindN>>, recs |-> recs], <<26>>)
DBFFiles ==
    {DBFFile(<<>>), DBFFile(<<PresentRecord>>),
     DBFFile(<<PresentRecord, PresentRecord>>),
     DBFFile(<<DeletedRecord, PresentRecord>>),
     DBFFile(<<PresentRecord, BrokenRecord>>),
     DBFFile(<<PresentRecord, FlaggedRecord>>),
     DBFFile(<<FlaggedRecord>>),
     Zeros(dbfHeaderLength)}

\* A .shx file of n records, followed by rest.
RECURSIVE SHXRecordsBytes(_)
SHXRecordsBytes(n) ==
    IF n = 0 THEN <<>>
    ELSE SHXRecordsBytes(n - 1) \o PutUint32BE(50 + 14 * (n - 1)) \o PutUint32BE(10)
SHXFile(n, rest) ==
    HeaderBytes(fileCode, (headerSize + 8 * n + Len(rest)) \div 2, version, ShapeTypePoint)
    \o SHXRecordsBytes(n) \o rest
SHXFiles ==
    {SHXFile(0, <<>>), SHXFile(1, <<>>), SHXFile(2, <<>>), SHXFile(1, <<0, 0, 0, 0>>),
     HeaderBytes(0, 50, version, ShapeTypePoint)}

Optional(S) == {NilPtr} \cup {Ptr(x) : x \in S}

FileSets == [dbf : Optional(DBFFiles), shp : Optional(SHPFiles), shx : Optional(SHXFiles)]

\* *ReadShapefileOptions
ShapefileOptionsSet ==
    {NilPtr,
     Ptr([DBF |-> DBFOptions(0, 0, 0, FALSE, ""), SHP |-> NilPtr]),
     Ptr([DBF |-> DBFOptions(0, 0, 0, TRUE, ""), SHP |-> NilPtr])}

Entries == {"Read", "ReadFS", "ReadZipReader", "ReadScanner"}

---------------------------------------------------------------------------
(* Read, ReadFS, ReadZipReader, and NewScanner with ReadScanner.           *)

InitShapefile ==
    /\ SHPIdle
    /\ DBFIdle
    /\ FunctionsIdle
    /\ files \in FileSets
    /\ asmOptions \in ShapefileOptionsSet
    /\ asmEntry \in Entries
    /\ asmPc = "start"
    /\ shxR = [data |-> <<>>, off |-> 0, chunk |-> 1, eofWithData |-> FALSE]
    /\ scannerSHX = NilPtr
    /\ shxRecords = <<>>
    /\ shapeScanner = NilPtr
    /\ asmRet = [shapefile |-> NilPtr, err |-> <<>>, panic |-> FALSE]

\* Read(basename, options): the .dbf, the .shx, the .shp, and the check.
\* (Read names the reader's method above.)
ReadBasename ==
    /\ asmPc = "start"
    /\ asmEntry = "Read"
    /\ asmRet' = Assemble(TRUE, PartDBF(files, asmOptions), PartSHX(files),
                          PartSHP(files, asmOptions),
                          PartDBF(files, asmOptions), PartSHP(files, asmOptions),
                          PartSHX(files))
    /\ asmPc' = "done"
    /\ UNCHANGED <<files, asmOptions, asmEntry, shxR, scannerSHX, shxRecords, shapeScanner>>
    /\ UNCHANGED <<shpVars, dbfVars, fnVars>>

\* ReadFS(fsys, basename, options): the .dbf, the .shp, the .shx.
ReadFS ==
    /\ asmPc = "start"
    /\ asmEntry = "ReadFS"
    /\ asmRet' = Assemble(FALSE, PartDBF(files, asmOptions), PartSHP(files, asmOptions),
                          PartSHX(files),
                          PartDBF(files, asmOptions), PartSHP(files, asmOptions),
                          PartSHX(files))
    /\ asmPc' = "done"
    /\ UNCHANGED <<files, asmOptions, asmEntry, shxR, scannerSHX, shxRecords, shapeScanner>>
    /\ UNCHANGED <<shpVars, dbfVars, fnVars>>

\* ReadZipReader(zipReader, options): the .dbf, the .shp, the .shx, and
\* the check.
ReadZipReader ==
    /\ asmPc = "start"
    /\ asmEntry = "ReadZipReader"
    /\ asmRet' = Assemble(TRUE, PartDBF(files, asmOptions), PartSHP(files, asmOptions),
                          PartSHX(files),
                          PartDBF(files, asmOptions), PartSHP(files, asmOptions),
                          PartSHX(files))
    /\ asmPc' = "done"
    /\ UNCHANGED <<files, asmOptions, asmEntry, shxR, scannerSHX, shxRecords, shapeScanner>>
    /\ UNCHANGED <<shpVars, dbfVars, fnVars>>

\* NewScanner(readers, sizes, options) on the sub-scanners a, b, c opened
\* for the .shp, the .dbf and the .shx; ReadScanner's loop follows.
NewScannerJoin(a, b, c) ==
    IF Join(<<a.err, b.err, c.err>>) # <<>>
    THEN /\ asmRet' = [shapefile |-> NilPtr, err |-> Join(<<a.err, b.err, c.err>>),
                       panic |-> FALSE]
         /\ asmPc' = "done"
         /\ UNCHANGED <<r, options, header, scanner, dbfR, dbfOptions, dbfHeader,
                        fieldDescriptors, decoder, scannerDBF, shxR, scannerSHX,
                        shapeScanner>>
    ELSE /\ r' = a.r
         /\ options' = OptionsSHP(asmOptions)
         /\ header' = a.header
         /\ scanner' = a.scanner
         /\ dbfR' = b.r
         /\ dbfOptions' = OptionsDBF(asmOptions)
         /\ dbfHeader' = b.header
         /\ fieldDescriptors' = b.fieldDescriptors
         /\ decoder' = b.decoder
         /\ scannerDBF' = b.scanner
         /\ shxR' = c.r
         /\ scannerSHX' = c.scanner
         /\ shapeScanner' = Ptr([scanRecords |-> 0, err |-> <<>>])
         /\ asmPc' = "scan"
         /\ UNCHANGED asmRet
NewScanner ==
    /\ asmPc = "start"
    /\ asmEntry = "ReadScanner"
    /\ NewScannerJoin(OpenSHP(files), OpenDBF(files, asmOptions), OpenSHX(files))
    /\ UNCHANGED <<files, asmOptions, asmEntry, shxRecords>>
    /\ UNCHANGED <<fileLength, entry, pc, recordNumber, records, ret, scanned, calls>>
    /\ UNCHANGED <<dbfEntry, dbfPc, dbfRecords, dbfRet, scannedDBF, dbfCalls>>
    /\ UNCHANGED fnVars

\* One iteration of ReadScanner's loop: scanner.Next() holds, and
\* Scanner.Scan gets the results a, b, c of the Scans of the SHP, DBF and
\* SHX sub-scanners, which run in goroutines of their own on their own
\* readers; a panic in one of them ends the program.
ScanJoin(a, b, c) ==
    /\ r' = a.r
    /\ dbfR' = b.r
    /\ shxR' = c.r
    /\ IF a.panic \/ b.panic \/ c.panic
       THEN /\ asmRet' = Crash
            /\ asmPc' = "done"
            /\ UNCHANGED <<scanner, scannerDBF, scannerSHX, shapeScanner, records,
                           dbfRecords, shxRecords>>
       ELSE /\ scanner' = a.scanner
            /\ scannerDBF' = b.scanner
            /\ scannerSHX' = c.scanner
            /\ UNCHANGED <<asmRet, asmPc>>
            /\ IF Join(<<a.err, b.err, c.err>>) # <<>>
               THEN /\ shapeScanner' =
                          Ptr([Deref(shapeScanner) EXCEPT
                                  !.err = Join(<<a.err, b.err, c.err>>)])
                    /\ UNCHANGED <<records, dbfRecords, shxRecords>>
               ELSE /\ shapeScanner' =
                          Ptr([Deref(shapeScanner) EXCEPT !.scanRecords = @ + 1])
                    /\ records' = IF a.scanner # NilPtr /\ a.record # NilPtr
                                  THEN Append(records, a.record) ELSE records
                    /\ dbfRecords' = IF b.scanner # NilPtr /\ b.record # NilPtr
                                     THEN Append(dbfRecords, b.record) ELSE dbfRecords
                    /\ shxRecords' = IF c.scanner # NilPtr /\ c.record # NilPtr
                                     THEN Append(shxRecords, Deref(c.record))
                                     ELSE shxRecords
ReadScannerLoop ==
    /\ asmPc = "scan"
    /\ Deref(shapeScanner).err = <<>>
    /\ Deref(shapeScanner).scanRecords < MaxCalls
    /\ ScanJoin(ScanSHP(r, scanner, options),
                ScanDBF(dbfR, scannerDBF, dbfHeader, fieldDescriptors, dbfOptions, decoder),
                ScanSHX(shxR, scannerSHX))
    /\ UNCHANGED <<files, asmOptions, asmEntry>>
    /\ UNCHANGED <<fileLength, options, entry, pc, header, recordNumber, ret, scanned, calls>>
    /\ UNCHANGED <<dbfOptions, dbfEntry, dbfPc, dbfHeader, fieldDescriptors, decoder,
                   dbfRet, scannedDBF, dbfCalls>>
    /\ UNCHANGED fnVars

\* ReadScanner after its loop: scanner.Next() no longer holds.
ReadScannerReturn ==
    /\ asmPc = "scan"
    /\ Deref(shapeScanner).err # <<>>
    /\ asmPc' = "done"
    /\ asmRet' =
         IF ~IsEOF(Deref(shapeScanner).err)
         THEN [shapefile |-> NilPtr, err |-> Deref(shapeScanner).err, panic |-> FALSE]
         ELSE [shapefile |->
                  Ptr([DBF |-> IF scannerDBF = NilPtr THEN NilPtr
                               ELSE Ptr([DBFHeader |-> Deref(dbfHeader),
                                         FieldDescriptors |-> fieldDescriptors,
                                         Records |-> dbfRecords]),
                       SHP |-> IF scanner = NilPtr THEN NilPtr
                               ELSE Ptr([SHxHeader |-> Deref(header), Records |-> records]),
                       SHX |-> IF scannerSHX = NilPtr THEN NilPtr
                               ELSE Ptr([SHxHeader |-> Deref(Deref(scannerSHX).header),
                                         Records |-> shxRecords])]),
               err |-> <<>>, panic |-> FALSE]
    /\ UNCHANGED <<files, asmOptions, asmEntry, shxR, scannerSHX, shxRecords, shapeScanner>>
    /\ UNCHANGED <<shpVars, dbfVars, fnVars>>

NextShapefile ==
    ReadBasename \/ ReadFS \/ ReadZipReader \/ NewScanner \/ ReadScannerLoop \/ ReadScannerReturn

SpecShapefile == InitShapefile /\ [][NextShapefile]_vars

---------------------------------------------------------------------------
(* Claims about the shapefile.                                             *)

\* The parts of the files read on their own, as the entry point reads them.
AloneDBF == PartDBF(files, asmOptions)
AloneSHP == PartSHP(files, asmOptions)
AloneSHX == PartSHX(files)
AllPartsRead ==
    /\ ~AloneDBF.panic /\ AloneDBF.err = Nil
    /\ ~AloneSHP.panic /\ AloneSHP.err = Nil
    /\ ~AloneSHX.panic /\ AloneSHX.err = Nil
\* The numbers of records of the parts that are there.
PartCount(part) == IF part = NilPtr THEN {} ELSE {Len(Deref(part).Records)}
PartCounts(dbf, shp, shx) == PartCount(dbf) \cup PartCount(shp) \cup PartCount(shx)
Assembled ==
    /\ asmPc = "done"
    /\ asmEntry \in {"Read", "ReadFS", "ReadZipReader"}

\* C18: a Shapefile that Read, ReadFS or ReadZipReader returns has the same
\* number of records in each of its DBF, SHP and SHX parts that are there,
\* and when the files read without error but two of them differ in the
\* number of records the entry point returns no Shapefile and the error
\* "inconsistent number of records".
C18_ConsistentRecordCounts ==
    Assembled =>
        /\ asmRet.shapefile # NilPtr =>
               Cardinality(PartCounts(Deref(asmRet.shapefile).DBF,
                                      Deref(asmRet.shapefile).SHP,
                                      Deref(asmRet.shapefile).SHX)) <= 1
        /\ (AllPartsRead
            /\ Cardinality(PartCounts(AloneDBF.part, AloneSHP.part, AloneSHX.part)) > 1) =>
               /\ asmRet.shapefile = NilPtr
               /\ asmRet.err = <<"inconsistent number of records">>

\* ReadScanner returned after its loop.
ScannerReturned ==
    /\ asmPc = "done"
    /\ asmEntry = "ReadScanner"
    /\ shapeScanner # NilPtr
    /\ ~asmRet.panic
\* The sub-scanner sc has reported an error that is not io.EOF.
SubScannerFailed(sc) == sc # NilPtr /\ Deref(sc).err \notin {Nil, EOF}
\* The sub-scanner sc has reported io.EOF.
SubScannerEnded(sc) == sc # NilPtr /\ Deref(sc).err = EOF

\* C19: when one of the SHP, DBF and SHX sub-scanners has reported an error
\* other than io.EOF while ReadScanner iterated, ReadScanner returns an
\* error and no Shapefile, whatever the other sub-scanners reported in the
\* same Scan.
C19_SubScannerErrorIsReturned ==
    (ScannerReturned /\ (SubScannerFailed(scanner) \/ SubScannerFailed(scannerDBF)
                         \/ SubScannerFailed(scannerSHX))) =>
        /\ asmRet.shapefile = NilPtr
        /\ asmRet.err # <<>>

---------------------------------------------------------------------------
(* Claim about the content length of MultiPoint, PolyLine and Polygon      *)
(* records (specification Spec).                                           *)

\* The record ahead of the reader, of the MultiPoint, PolyLine or Polygon
\* family: whether it has a part table, the bytes before the part table or
\* the coordinates, and its counts.
AheadMulti == AheadType \in MultiPointTypes \cup PolyLineTypes \cup PolygonTypes
AheadHasParts == AheadType \in PolyLineTypes \cup PolygonTypes
AheadCountsEnd == IF AheadHasParts THEN 44 ELSE 40
AheadPartCount == LittleEndianUint32(Slice(AheadContent, 36, 40))
AheadPointCount ==
    LittleEndianUint32(Slice(AheadContent, AheadCountsEnd - 4, AheadCountsEnd))
AheadHasM ==
    AheadType \in {ShapeTypeMultiPointM, ShapeTypePolyLineM, ShapeTypePolygonM,
                   ShapeTypeMultiPointZ, ShapeTypePolyLineZ, ShapeTypePolygonZ}
AheadHasZ == AheadType \in {ShapeTypeMultiPointZ, ShapeTypePolyLineZ, ShapeTypePolygonZ}
\* The content length the counts of the record ahead require.
AheadRequiredLength ==
    4 + 32
    + (IF AheadHasParts THEN 4 + 4 * AheadPartCount ELSE 0)
    + 4 + 16 * AheadPointCount
    + (IF AheadHasM THEN 16 + 8 * AheadPointCount ELSE 0)
    + (IF AheadHasZ THEN 16 + 8 * AheadPointCount ELSE 0)
AheadLengthMatches ==
    /\ AheadLength >= AheadCountsEnd
    /\ AheadLength = AheadRequiredLength
\* The errors ReadSHPRecord returns before it reads the part table: those
\* of the record header, of the counts and of the content length.
ErrorsBeforePartTable ==
    {"content length too large", "invalid number of parts", "too many parts",
     "too many points", "invalid content length"}

\* C20: ReadSHPRecord accepts a MultiPoint, PolyLine or Polygon family
\* record only if its content length is 4 + 32 + (4 + 4 * numParts for the
\* PolyLine and Polygon families) + 4 + 16 * numPoints, plus
\* 16 + 8 * numPoints for the M block (M and Z shape types) and again for
\* the Z block (Z shape types); when the content length is another, the
\* record is rejected with an error raised before the part table and the
\* coordinates are read, whatever they hold, and nothing is indexed out of
\* range.
C20_MultiContentLength ==
    (Reading /\ AheadWhole /\ AheadMulti) =>
        /\ ~NextRecord.panic
        /\ NextRecord.err = Nil => AheadLengthMatches
        /\ ~AheadLengthMatches =>
               /\ NextRecord.record = NilPtr
               /\ NextRecord.err \in ErrorsBeforePartTable

\* The first record of the stream.
FirstContent == Slice(r.data, headerSize + 8, Len(r.data))
FirstType == LittleEndianUint32(Slice(FirstContent, 0, 4))
\* ReadSHP rejected, for its content length, a PolygonZ record that has no
\* Z block and whose counts are within the maxima.
C20_Witness ==
    /\ Returned
    /\ ret.err = "invalid content length"
    /\ Len(r.data) = headerSize + 8 + 4 + 32 + 4 + 4 + 4 + 16 * 4 + 16 + 8 * 4
    /\ FirstType = ShapeTypePolygonZ
    /\ LittleEndianUint32(Slice(FirstContent, 36, 40)) = 1
    /\ LittleEndianUint32(Slice(FirstContent, 40, 44)) = 4

---------------------------------------------------------------------------
(* Claims about the part table, the rings and the cursor (specification    *)
(* Spec).                                                                  *)

\* The declared start, in points, of part i (from 1) of the record ahead.
DeclaredPart(i) ==
    LittleEndianUint32(Slice(AheadContent, 44 + 4 * (i - 1), 44 + 4 * i))
\* The part table of the record ahead is in its content, and it decreases
\* somewhere.
PartTableAhead == AheadLength >= 44 /\ AheadLength >= 44 + 4 * AheadPartCount
PartTableDecreases ==
    \E i \in 1..(AheadPartCount - 1) : DeclaredPart(i + 1) < DeclaredPart(i)
\* The ends of an accepted PolyLine or Polygon family geometry, in order.
EndsOf(g) == IF g.type = "MultiPolygon" THEN Concat(g.endss) ELSE g.ends
Ascending(s) == \A i \in 1..(Len(s) - 1) : s[i] <= s[i + 1]

\* C21: the ends of every PolyLine or Polygon family record ReadSHPRecord
\* accepts are ascending, each being >= its predecessor, and a record whose
\* part table decreases somewhere is rejected.
C21_EndsAscending ==
    (Reading /\ AheadWhole /\ AheadHasParts /\ ~NextRecord.panic) =>
        /\ NextRecord.err = Nil =>
               Ascending(EndsOf(Deref(Deref(NextRecord.record).Geom)))
        /\ (PartTableAhead /\ PartTableDecreases) => NextRecord.err # Nil

\* The rings of the polygon record ahead: the signed double area of ring i
\* (from 1) and its end in the flat coordinates.
PolygonStride == CASE AheadType = 5 -> 2 [] AheadType = 25 -> 3 [] AheadType = 15 -> 4
AheadRingArea(i) == AheadArea(AheadPart(i), AheadPart(i + 1) - 1)
AheadRingEnd(i) == PolygonStride * AheadPart(i + 1)
\* The groups of the rings from ring i on, `open` being the open group and
\* `closed` the groups before it: a ring after the first that has a
\* negative area closes the open group and opens the next one.
RECURSIVE GroupRings(_, _, _)
GroupRings(i, open, closed) ==
    IF i > AheadNumParts THEN Append(closed, open)
    ELSE IF i > 1 /\ FIsNeg(AheadRingArea(i))
    THEN GroupRings(i + 1, <<AheadRingEnd(i)>>, Append(closed, open))
    ELSE GroupRings(i + 1, Append(open, AheadRingEnd(i)), closed)

\* C22: the rings of an accepted polygon record, none of which has a NaN
\* area, are grouped in one pass from left to right with one open group:
\* the first ring opens the first group whatever the sign of its area, each
\* later ring of negative signed double area closes the open group and
\* opens a new one, and each later ring of positive signed double area is
\* appended to the open group.
C22_OnePassGrouping ==
    (PolygonAhead /\ BadRings = {}
     /\ \A i \in 1..AheadNumParts : FIsNeg(AheadRingArea(i)) \/ FIsPos(AheadRingArea(i))) =>
        /\ NextRecord.err = Nil
        /\ IsPolygonRecord(NextRecord.record)
        /\ Deref(Deref(NextRecord.record).Geom).endss = GroupRings(1, <<>>, <<>>)

\* ReadSHP returned a polygon of an outer ring (negative area) followed by
\* a counter-clockwise ring (positive area) as one group of two rings.
C22_Witness ==
    /\ Succeeded
    /\ Len(records) = 1
    /\ IsPolygonRecord(records[1])
    /\ LET g == Deref(Deref(records[1]).Geom)
       IN  /\ g.endss = <<<<8, 16>>>>
           /\ FIsNeg(RingArea(g, 1))
           /\ FIsPos(RingArea(g, 2))

---------------------------------------------------------------------------
(* makeMultiPolygonEndss called on its own, as its test calls it.          *)

\* The flat coordinates of points <<x, y>> in a layout of the given stride
\* (every Z and M is 0), and the ends of rings laid one after the other.
RECURSIVE RingFlatCoords(_, _)
RingFlatCoords(pts, stride) ==
    IF pts = <<>> THEN <<>>
    ELSE <<Head(pts)[1], Head(pts)[2]>> \o [i \in 1..(stride - 2) |-> F(0)]
         \o RingFlatCoords(Tail(pts), stride)
RECURSIVE RingEnds(_, _, _)
RingEnds(rings, stride, at) ==
    IF rings = <<>> THEN <<>>
    ELSE <<at + stride * Len(Head(rings))>>
         \o RingEnds(Tail(rings), stride, at + stride * Len(Head(rings)))

\* The arguments of a call: the rings of a polygon in every layout, no ring
\* at all, and ends that repeat, decrease or stop short of the coordinates.
RingCall(layout, flatCoords, ends) ==
    [layout |-> layout, flatCoords |-> flatCoords, ends |-> ends]
RingCalls ==
    {RingCall(l, RingFlatCoords(Concat(rs), Stride(l)), RingEnds(rs, Stride(l), 0)) :
        l \in Layouts, rs \in RingLists \cup {<<>>}}
    \cup {RingCall("XY", RingFlatCoords(RingCW \o RingCCW, 2), ends) :
            ends \in {<<>>, <<8>>, <<8, 8>>, <<16, 8>>, <<8, 12>>}}

InitRings ==
    /\ SHPIdle
    /\ DBFIdle
    /\ AssemblyIdle
    /\ cursor = [rest |-> <<>>, err |-> Nil]
    /\ flat = <<>>
    /\ lastRead = NilPtr
    /\ reads = 0
    /\ ringArgs \in {Ptr(c) : c \in RingCalls}
    /\ ringRet = NilPtr
    /\ goroutines = <<>>
    /\ shared = NilPtr

\* makeMultiPolygonEndss(layout, flatCoords, ends)
MakeMultiPolygonEndss ==
    /\ ringArgs # NilPtr
    /\ ringRet = NilPtr
    /\ ringRet' = Ptr(makeMultiPolygonEndss(Deref(ringArgs).layout,
                                            Deref(ringArgs).flatCoords,
                                            Deref(ringArgs).ends))
    /\ UNCHANGED <<cursor, flat, lastRead, reads, ringArgs, goroutines, shared>>
    /\ UNCHANGED <<shpVars, dbfVars, asmVars>>

NextRings == MakeMultiPolygonEndss

SpecRings == InitRings /\ [][NextRings]_vars

\* makeMultiPolygonEndss returned a grouping and no error.
Grouped ==
    /\ ringRet # NilPtr
    /\ ~Deref(ringRet).panic
    /\ Deref(ringRet).err = Nil

\* C23: when makeMultiPolygonEndss succeeds, the groups it returns, one
\* after the other, are the ends it was given, in their order; no group is
\* empty; and for no ends there is no group.
C23_OrderPreservingPartition ==
    Grouped =>
        /\ Concat(Deref(ringRet).endss) = Deref(ringArgs).ends
        /\ \A g \in 1..Len(Deref(ringRet).endss) : Deref(ringRet).endss[g] # <<>>
        /\ Deref(ringArgs).ends = <<>> => Deref(ringRet).endss = <<>>

\* Three rings came back as two groups, one of them of two rings.
C23_Witness ==
    /\ Grouped
    /\ Len(Deref(ringArgs).ends) = 3
    /\ Len(Deref(ringRet).endss) = 2

---------------------------------------------------------------------------
(* The cursor reader read directly, one operation after the other.         *)

\* The number of reads of one cursor.
MaxReads == 3

\* The 8 bytes are one of the bit patterns on which Float64frombits is
\* defined in this model.
Binary64Modelled(b) ==
    \/ (b[8] % 128) * 16 + b[7] \div 16 = 2047
         /\ (b[7] % 16 # 0 \/ \E i \in 1..6 : b[i] # 0)
    \/ (b[8] % 128) * 16 + b[7] \div 16 = 0 /\ b[7] % 16 = 0 /\ \A i \in 1..6 : b[i] = 0
    \/ /\ (b[8] % 128) * 16 + b[7] \div 16 \in 1027..1040
       /\ \A i \in 1..6 : b[i] = 0
    \/ /\ (b[8] % 128) * 16 + b[7] \div 16 \in 1023..1026
       /\ \A i \in 1..6 : b[i] = 0
       /\ (16 + (b[7] % 16)) % Pow2(1027 - ((b[8] % 128) * 16 + b[7] \div 16)) = 0

\* The byte slices handed to newByteSliceReader, each of a capacity equal to
\* its length, so that a slice expression beyond the length panics (with a
\* larger capacity it would yield bytes beyond the length): the prefixes of
\* two part words and four doubles, of four doubles, of a part table that
\* starts with 1, of one whose second part is 5, and of zeros.
CursorWhole ==
    { PutUint32LE(0) \o PutUint32LE(2) \o PutFloat64(F(1)) \o PutFloat64(F(2))
          \o PutFloat64(F(3)) \o PutFloat64(F(4)),
      PutFloat64(F(1)) \o PutFloat64(F(2)) \o PutFloat64(F(3)) \o PutFloat64(F(4)),
      PutUint32LE(1) \o PutUint32LE(0) \o PutFloat64(F(5)) \o PutFloat64(F(6)),
      PutUint32LE(0) \o PutUint32LE(5) \o Zeros(8),
      Zeros(40) }
CursorLengths == {0, 2, 4, 6, 8, 12, 16, 20, 24, 32, 40}
CursorData ==
    UNION {{SubSeq(d, 1, k) : k \in {n \in CursorLengths : n <= Len(d)}} : d \in CursorWhole}

\* The caller's flat coordinates before any read.
FlatBuffer == [i \in 1..8 |-> F(7)]

InitCursor ==
    /\ SHPIdle
    /\ DBFIdle
    /\ AssemblyIdle
    /\ cursor \in {newByteSliceReader(d) : d \in CursorData}
    /\ flat = FlatBuffer
    /\ lastRead = NilPtr
    /\ reads = 0
    /\ ringArgs = NilPtr
    /\ ringRet = NilPtr
    /\ goroutines = <<>>
    /\ shared = NilPtr

\* One more read can be made: no read has panicked.
CanRead ==
    /\ reads < MaxReads
    /\ lastRead # NilPtr => ~Deref(lastRead).panic

\* The next k doubles of the cursor, where a read would decode them, are
\* bit patterns of this model.
DoublesModelled(k) ==
    (cursor.err = Nil /\ Len(cursor.rest) >= 8 * k) =>
        \A i \in 0..(k - 1) : Binary64Modelled(Slice(cursor.rest, 8 * i, 8 * i + 8))

\* A call of one operation on the cursor: the operation, its arguments, the
\* cursor and the flat coordinates before it, what it returned and whether
\* it panicked.
CursorCall(op, layout, n, index, numPoints, v, panic) ==
    [op |-> op, layout |-> layout, n |-> n, index |-> index, numPoints |-> numPoints,
     r0 |-> cursor, fc0 |-> flat, v |-> v, panic |-> panic]

CursorStep(rd1, fc1, call) ==
    /\ cursor' = rd1
    /\ flat' = fc1
    /\ lastRead' = Ptr(call)
    /\ reads' = reads + 1
    /\ UNCHANGED <<ringArgs, ringRet, goroutines, shared>>
    /\ UNCHANGED <<shpVars, dbfVars, asmVars>>

ReadUint32Step(res) ==
    CursorStep(res.r, flat, CursorCall("readUint32", "XY", 0, 0, 0, res.v, res.panic))
ReadUint32 ==
    /\ CanRead
    /\ ReadUint32Step(readUint32(cursor))

ReadFloat64PairStep(res) ==
    CursorStep(res.r, flat, CursorCall("readFloat64Pair", "XY", 0, 0, 0, res.v, res.panic))
ReadFloat64Pair ==
    /\ CanRead
    /\ DoublesModelled(2)
    /\ ReadFloat64PairStep(readFloat64Pair(cursor))

ReadFloat64sStep(n, res) ==
    CursorStep(res.r, flat, CursorCall("readFloat64s", "XY", n, 0, 0, res.v, res.panic))
ReadFloat64s ==
    /\ CanRead
    /\ \E n \in 0..2 :
        /\ DoublesModelled(n)
        /\ ReadFloat64sStep(n, readFloat64s(cursor, n))

ReadXYsStep(n, layout, res) ==
    CursorStep(res.r, res.fc, CursorCall("readXYs", layout, n, 0, 0, <<>>, res.panic))
ReadXYs ==
    /\ CanRead
    /\ \E n \in 0..2, layout \in Layouts :
        /\ DoublesModelled(2 * n)
        /\ ReadXYsStep(n, layout, readXYs(cursor, flat, n, layout))

ReadOrdinatesStep(n, layout, index, res) ==
    CursorStep(res.r, res.fc, CursorCall("readOrdinates", layout, n, index, 0, <<>>, res.panic))
ReadOrdinates ==
    /\ CanRead
    /\ \E n \in 0..2, layout \in {"XYM", "XYZM"}, z \in BOOLEAN :
        /\ DoublesModelled(n)
        /\ (z => ZIndex(layout) >= 0)
        /\ ReadOrdinatesStep(n, layout, IF z THEN ZIndex(layout) ELSE MIndex(layout),
               readOrdinates(cursor, flat, n, layout,
                             IF z THEN ZIndex(layout) ELSE MIndex(layout)))

\* The parts after the first that readEnds would read are below 2^24, so
\* that stride * part is an integer of this model.
PartsModelled(numParts) ==
    cursor.err = Nil =>
        \A i \in 1..(numParts - 1) :
            4 * i + 4 <= Len(cursor.rest) =>
                LittleEndianUint32(Slice(cursor.rest, 4 * i, 4 * i + 4)) < Pow2(24)

ReadEndsStep(layout, numParts, numPoints, res) ==
    CursorStep(res.r, flat,
               CursorCall("readEnds", layout, numParts, 0, numPoints, res.v, res.panic))
ReadEnds ==
    /\ CanRead
    /\ \E layout \in Layouts, numParts \in 1..2, numPoints \in {2, 4} :
        /\ PartsModelled(numParts)
        /\ ReadEndsStep(layout, numParts, numPoints,
                        readEnds(cursor, layout, numParts, numPoints))

NextCursor ==
    \/ ReadUint32
    \/ ReadFloat64Pair
    \/ ReadFloat64s
    \/ ReadXYs
    \/ ReadOrdinates
    \/ ReadEnds

SpecCursor == InitCursor /\ [][NextCursor]_vars

\* The call returned the zero value of its result type, or nil.
ZeroResult(call) ==
    CASE call.op = "readUint32" -> call.v = 0
      [] call.op = "readFloat64Pair" -> call.v = <<F(0), F(0)>>
      [] OTHER -> call.v = <<>>

\* C24: a read made on a cursor whose error is set, whatever the operation
\* and however many reads came before, returns the zero value or nil, leaves
\* the remaining bytes and the caller's flat coordinates as they were, and
\* leaves Err() the error that was set first.
C24_StickyError ==
    (lastRead # NilPtr /\ Deref(lastRead).r0.err # Nil) =>
        /\ ~Deref(lastRead).panic
        /\ ZeroResult(Deref(lastRead))
        /\ cursor = Deref(lastRead).r0
        /\ flat = Deref(lastRead).fc0

\* A third read on a cursor that failed in the first read with 16 bytes
\* left, enough for the operation that is read.
C24_Witness ==
    /\ reads = 3
    /\ Deref(lastRead).r0.err = errUnexpectedEndOfData
    /\ Len(cursor.rest) = 16
    /\ Deref(lastRead).op = "readXYs"
    /\ Deref(lastRead).n = 1

\* The bytes the call needs.
BytesNeeded(call) ==
    CASE call.op = "readUint32" -> 4
      [] call.op = "readFloat64Pair" -> 16
      [] call.op = "readFloat64s" -> 8 * call.n
      [] call.op = "readXYs" -> 16 * call.n
      [] call.op = "readOrdinates" -> 8 * call.n
      [] call.op = "readEnds" -> 4 * call.n

\* The call was made on a cursor without error that had fewer bytes left
\* than the call needs.
ShortRead ==
    /\ lastRead # NilPtr
    /\ Deref(lastRead).r0.err = Nil
    /\ Len(Deref(lastRead).r0.rest) < BytesNeeded(Deref(lastRead))

\* C25: a read on a cursor without error that has fewer bytes left than the
\* operation needs sets the error to "unexpected end of data", returns the
\* zero value or nil, leaves the remaining bytes where they were and indexes
\* nothing beyond them.
C25_ShortReadFailsCleanly ==
    ShortRead =>
        /\ ~Deref(lastRead).panic
        /\ cursor.err = errUnexpectedEndOfData
        /\ cursor.rest = Deref(lastRead).r0.rest
        /\ flat = Deref(lastRead).fc0
        /\ ZeroResult(Deref(lastRead))

\* C25 for the five operations other than readEnds.
ShortReadOtherThanEnds ==
    (ShortRead /\ Deref(lastRead).op # "readEnds") =>
        /\ ~Deref(lastRead).panic
        /\ cursor.err = errUnexpectedEndOfData
        /\ cursor.rest = Deref(lastRead).r0.rest
        /\ flat = Deref(lastRead).fc0
        /\ ZeroResult(Deref(lastRead))

---------------------------------------------------------------------------
(* The cursor of ReadSHPRecord at its return (specification Spec).         *)

\* The cursor over the content of the record ahead after the reads that
\* ReadSHPRecord makes of it on the way to returning a record: the shape
\* type; for the Point family the coordinates; for every other type but
\* Null the box and the counts, the part table and the coordinate blocks.
CursorAfterReads ==
    LET st == readUint32(newByteSliceReader(AheadContent))
        layout == LayoutOf(st.v)
        hasParts == st.v \in PolyLineTypes \cup PolygonTypes
        c == readBoxAndCounts(st.r, hasParts)
    IN  IF st.v = ShapeTypeNull THEN st.r
        ELSE IF st.v \in PointTypes THEN readFloat64s(st.r, Stride(layout)).r
        ELSE readCoordinates(c.r, layout, hasParts, c.numParts, c.numPoints).r

\* C26: whenever ReadSHPRecord returns a record, by the return of the Null
\* record, by the return of the Point family or by the last return, the
\* error of the cursor over the content is nil after all the reads made of
\* it, and every byte of the content has been read.
C26_ReturnedRecordHasNoCursorError ==
    (Reading /\ AheadWhole /\ ~NextRecord.panic /\ NextRecord.err = Nil) =>
        /\ CursorAfterReads.err = Nil
        /\ CursorAfterReads.rest = <<>>

\* ReadSHP returned a Null record and after it a Point record, both on the
\* returns that come before the check of the cursor's error.
C26_Witness ==
    /\ Succeeded
    /\ Len(ReturnedRecords) = 2
    /\ Deref(ReturnedRecords[1]).ShapeType = ShapeTypeNull
    /\ Deref(ReturnedRecords[2]).ShapeType = ShapeTypePoint
    /\ Deref(Deref(ReturnedRecords[2]).Geom).flatCoords = <<F(1), F(2)>>

---------------------------------------------------------------------------
(* The goroutines of NewScanner, Scanner.Scan and Scanner.Discard. Each    *)
(* goroutine is the sequence of its accesses to the variables it shares    *)
(* with the others and with the caller; the accesses of different          *)
(* goroutines interleave in every order, and wg.Wait returns when all      *)
(* have ended.                                                             *)

Parts == {"SHP", "DBF", "SHX"}

\* The variables of the three methods: the fields of the Scanner, the
\* sub-scanners with their readers, the maps and the options handed to
\* NewScanner, the streams, and the local variables the goroutines set.
Field(part) == "s.scan" \o part
SubScanner(part) == "scan" \o part
Stream(part) == "reader" \o part
ErrCell_Shared(part) == "err"
ErrCell(part) == "err" \o part
RecordCell(part) == "record" \o part
CountCell(part) == "n" \o part
ScannerCell(part) == "scanner" \o part
EstimatedCell(part) == "estimated" \o part
Cells ==
    UNION {{Field(p), SubScanner(p), Stream(p), ErrCell(p), RecordCell(p), CountCell(p),
            ScannerCell(p), EstimatedCell(p)} : p \in Parts}
    \cup {"readers", "sizes", "options"}

\* An access: a read, or a write of val (a call of a method of a
\* sub-scanner or of a stream is a write of it).
Load(loc) == [loc |-> loc, kind |-> "R", val |-> ""]
Store(loc, val) == [loc |-> loc, kind |-> "W", val |-> val]

\* The goroutine of Scanner.Scan for one part.
ScanGoroutine(part, present, out) ==
    <<Load(Field(part))>>
    \o (IF part \notin present THEN <<>>
        ELSE <<Store(SubScanner(part), "Scan")>>
             \o (IF out[part] # "ok"
                 THEN <<Store(ErrCell(part), "scanning " \o part)>>
                 ELSE <<Store(RecordCell(part), "record")>>))

\* The goroutine of NewScanner for one part.
NewScannerGoroutine(part, present, out) ==
    <<Load("readers")>>
    \o (IF part \notin present THEN <<>>
        ELSE (IF part = "DBF" THEN <<Load("options")>>
              ELSE IF part = "SHP" THEN <<Load("sizes"), Load("options")>>
              ELSE <<Load("sizes")>>)
             \o <<Store(Stream(part), "header")>>
             \o (IF out[part] # "ok"
                 THEN <<Store(ErrCell(part), "NewScanner" \o part)>>
                 ELSE <<Store(ScannerCell(part), "scanner")>>
                      \o (IF part = "SHP" THEN <<>>
                          ELSE <<Load("sizes"), Store(EstimatedCell(part), "estimated")>>)))

\* The first goroutine of Scanner.Discard: the .dbf.
DiscardDBFGoroutine(present, out) ==
    <<Load(Field("DBF"))>>
    \o (IF "DBF" \notin present THEN <<>>
        ELSE <<Store(SubScanner("DBF"), "Discard")>>
             \o (IF out["DBF"] # "ok"
                 THEN <<Store(ErrCell("DBF"), "discard"), Store(CountCell("DBF"), "short")>>
                 ELSE <<Store(SubScanner("DBF"), "scanRecords")>>))

\* The .shp part of the second goroutine of Scanner.Discard, after the
\* .shx records are discarded.
DiscardSHPSteps(present, out) ==
    <<Load(Field("SHP"))>>
    \o (IF "SHP" \notin present THEN <<>>
        ELSE <<Store(SubScanner("SHX"), "Peek")>>
             \o (IF out["SHX"] = "peek2" THEN <<Store(ErrCell("SHX"), "peek")>>
                 ELSE <<Store(SubScanner("SHP"), "Discard")>>
                      \o (IF out["SHP"] # "ok"
                          THEN <<Store(CountCell("SHP"), "short"),
                                 Store(ErrCell("SHP"), "discard")>>
                          ELSE <<Store(SubScanner("SHP"), "scanRecords")>>)))

\* The second goroutine of Scanner.Discard: the .shx and, by its offsets,
\* the .shp.
DiscardSHXGoroutine(present, out) ==
    <<Load(Field("SHX"))>>
    \o (IF "SHX" \notin present
        THEN <<Load(Field("SHP"))>>
             \o (IF "SHP" \in present
                 THEN <<Store(ErrCell("SHP"), "can't discard .shp file without .shx file")>>
                 ELSE <<>>)
        ELSE <<Store(SubScanner("SHX"), "Peek")>>
             \o (IF out["SHX"] = "peek" THEN <<Store(ErrCell("SHX"), "peek")>>
                 ELSE <<Store(SubScanner("SHX"), "Discard")>>
                      \o (IF out["SHX"] = "err"
                          THEN <<Store(CountCell("SHX"), "short"),
                                 Store(ErrCell("SHX"), "discard")>>
                          ELSE <<Store(SubScanner("SHX"), "scanRecords")>>
                               \o DiscardSHPSteps(present, out))))

\* The goroutines a method starts: three of NewScanner and of Scan, one
\* for each part, and two of Discard.
Goroutines(op, present, out) ==
    CASE op = "Scan" -> [p \in Parts |-> ScanGoroutine(p, present, out)]
      [] op = "NewScanner" -> [p \in Parts |-> NewScannerGoroutine(p, present, out)]
      [] op = "Discard" ->
           [p \in {"DBF", "SHX"} |->
               IF p = "DBF" THEN DiscardDBFGoroutine(present, out)
               ELSE DiscardSHXGoroutine(present, out)]

\* What the sub-scanners and the streams do when called: succeed, fail,
\* and for the .shx of Discard fail in the first or in the second Peek.
Outcomes(op) ==
    {o \in [Parts -> {"ok", "err", "peek", "peek2"}] :
        /\ o["SHP"] \in {"ok", "err"}
        /\ o["DBF"] \in {"ok", "err"}
        /\ op # "Discard" => o["SHX"] \in {"ok", "err"}}

\* The variables before the goroutines start.
InitialMemory == [c \in Cells |-> IF c \in {ErrCell(p) : p \in Parts} THEN Nil ELSE ""]

InitGoroutines ==
    /\ SHPIdle
    /\ DBFIdle
    /\ AssemblyIdle
    /\ cursor = [rest |-> <<>>, err |-> Nil]
    /\ flat = <<>>
    /\ lastRead = NilPtr
    /\ reads = 0
    /\ ringArgs = NilPtr
    /\ ringRet = NilPtr
    /\ \E op \in {"NewScanner", "Scan", "Discard"}, present \in SUBSET Parts :
         \E out \in Outcomes(op) :
            /\ goroutines = Goroutines(op, present, out)
            /\ shared = Ptr([op |-> op, present |-> present, out |-> out,
                             mem |-> InitialMemory, log |-> {}, joined |-> FALSE,
                             err |-> <<>>, values |-> <<>>])

\* One access of goroutine g.
Access(g, a) ==
    /\ goroutines' = [goroutines EXCEPT ![g] = Tail(goroutines[g])]
    /\ shared' = Ptr([Deref(shared) EXCEPT
                        !.mem = IF a.kind = "W" THEN [@ EXCEPT ![a.loc] = a.val] ELSE @,
                        !.log = @ \cup {[g |-> g, loc |-> a.loc, kind |-> a.kind]}])
    /\ UNCHANGED <<cursor, flat, lastRead, reads, ringArgs, ringRet>>
    /\ UNCHANGED <<shpVars, dbfVars, asmVars>>

GoroutineStep ==
    /\ shared # NilPtr
    /\ \E g \in DOMAIN goroutines :
        /\ goroutines[g] # <<>>
        /\ Access(g, Head(goroutines[g]))

\* What the method reads after wg.Wait: the joined errors and, without
\* error, the values the goroutines left.
Values(op, mem) ==
    CASE op = "Scan" -> <<mem[RecordCell("SHP")], mem[RecordCell("SHX")], mem[RecordCell("DBF")]>>
      [] op = "NewScanner" ->
           <<mem[ScannerCell("SHP")], mem[ScannerCell("SHX")], mem[ScannerCell("DBF")],
             mem[EstimatedCell("DBF")], mem[EstimatedCell("SHX")]>>
      [] op = "Discard" -> <<>>
ValuesOnError(op, mem) ==
    IF op = "Discard"
    THEN <<mem[CountCell("SHX")], mem[CountCell("DBF")], mem[CountCell("SHP")]>>
    ELSE <<>>
JoinedErrors(mem) == Join(<<mem[ErrCell("SHP")], mem[ErrCell("DBF")], mem[ErrCell("SHX")]>>)

\* wg.Wait() returns once every goroutine has ended, and the method joins
\* the errors and returns.
WaitAndReturn ==
    /\ shared # NilPtr
    /\ ~Deref(shared).joined
    /\ \A g \in DOMAIN goroutines : goroutines[g] = <<>>
    /\ shared' = Ptr([Deref(shared) EXCEPT
                        !.joined = TRUE,
                        !.err = JoinedErrors(Deref(shared).mem),
                        !.values = IF JoinedErrors(Deref(shared).mem) # <<>>
                                   THEN ValuesOnError(Deref(shared).op, Deref(shared).mem)
                                   ELSE Values(Deref(shared).op, Deref(shared).mem)])
    /\ UNCHANGED goroutines
    /\ UNCHANGED <<cursor, flat, lastRead, reads, ringArgs, ringRet>>
    /\ UNCHANGED <<shpVars, dbfVars, asmVars>>

NextGoroutines ==
    \/ GoroutineStep
    \/ WaitAndReturn

SpecGoroutines == InitGoroutines /\ [][NextGoroutines]_vars

\* Two accesses of one variable by different goroutines, one of them a
\* write: a data race, as nothing orders the goroutines before wg.Wait.
Race(a, b) == a.g # b.g /\ a.loc = b.loc /\ (a.kind = "W" \/ b.kind = "W")

\* The variables after the goroutines have run one after the other.
RECURSIVE RunAll(_, _)
RunAll(mem, steps) ==
    IF steps = <<>> THEN mem
    ELSE RunAll(IF Head(steps).kind = "W"
                THEN [mem EXCEPT ![Head(steps).loc] = Head(steps).val] ELSE mem,
                Tail(steps))
OneAfterTheOther ==
    LET gs == Goroutines(Deref(shared).op, Deref(shared).present, Deref(shared).out)
    IN  RunAll(InitialMemory,
               (IF "SHP" \in DOMAIN gs THEN gs["SHP"] ELSE <<>>) \o gs["DBF"] \o gs["SHX"])

\* C27: in NewScanner, Scanner.Scan and Scanner.Discard no variable is
\* accessed by two goroutines unless both only read it; each sub-scanner
\* and each stream is accessed by at most one goroutine; and what the method
\* reads after wg.Wait, in every interleaving, is what the goroutines leave
\* when they run one after the other.
C27_GoroutinesDisjoint ==
    shared # NilPtr =>
        /\ \A a, b \in Deref(shared).log : ~Race(a, b)
        /\ \A p \in Parts : \A a, b \in Deref(shared).log :
              (a.loc \in {SubScanner(p), Stream(p)} /\ b.loc = a.loc) => a.g = b.g
        /\ Deref(shared).joined =>
              /\ \A g \in DOMAIN goroutines : goroutines[g] = <<>>
              /\ Deref(shared).mem = OneAfterTheOther
              /\ Deref(shared).err = JoinedErrors(OneAfterTheOther)

\* Scanner.Discard returned after its second goroutine discarded the .shx
\* and failed on the .shp while the first failed on the .dbf: both errors
\* are joined.
C27_Witness ==
    /\ shared # NilPtr
    /\ Deref(shared).joined
    /\ Deref(shared).op = "Discard"
    /\ Deref(shared).present = Parts
    /\ Deref(shared).err = <<"discard", "discard">>
    /\ Deref(shared).values = <<"", "short", "short">>

---------------------------------------------------------------------------
(* The DBF records of ReadScanner next to those of ReadDBF (specification  *)
(* SpecShapefile).                                                         *)

\* ReadScanner returned a Shapefile with a DBF, and ReadDBF reads the same
\* .dbf file without error.
ScannedWithDBF ==
    /\ ScannerReturned
    /\ asmRet.shapefile # NilPtr
    /\ Deref(asmRet.shapefile).DBF # NilPtr
    /\ ~AloneDBF.panic
    /\ AloneDBF.err = Nil
ScannedDBFRecords == Deref(Deref(asmRet.shapefile).DBF).Records

\* C28: the DBF of a Shapefile that ReadScanner returns has one entry for
\* each record scanned, the entries ReadDBF gives for the same file in the
\* same positions (nil where the record is deleted), and as many entries as
\* the SHP has records.
C28_ScannerKeepsDBFAligned ==
    ScannedWithDBF =>
        /\ Len(ScannedDBFRecords) = Deref(shapeScanner).scanRecords
        /\ Len(ScannedDBFRecords) <= Len(Deref(AloneDBF.part).Records)
        /\ ScannedDBFRecords
               = SubSeq(Deref(AloneDBF.part).Records, 1, Len(ScannedDBFRecords))
        /\ Deref(asmRet.shapefile).SHP # NilPtr =>
               Len(ScannedDBFRecords) = Len(Deref(Deref(asmRet.shapefile).SHP).Records)

\* C28 for the tables that have no deleted record.
AlignedWithoutDeleted ==
    (ScannedWithDBF /\ \A i \in 1..Len(Deref(AloneDBF.part).Records) :
                            Deref(AloneDBF.part).Records[i] # NilPtr) =>
        /\ Len(ScannedDBFRecords) = Deref(shapeScanner).scanRecords
        /\ Len(ScannedDBFRecords) <= Len(Deref(AloneDBF.part).Records)
        /\ ScannedDBFRecords
               = SubSeq(Deref(AloneDBF.part).Records, 1, Len(ScannedDBFRecords))
        /\ Deref(asmRet.shapefile).SHP # NilPtr =>
               Len(ScannedDBFRecords) = Len(Deref(Deref(asmRet.shapefile).SHP).Records)

---------------------------------------------------------------------------
(* The end of ReadScanner's loop (specification SpecShapefile). The loop   *)
(* ends when every Scan that leaves the Scanner's error unset takes bytes  *)
(* from one of the streams, which are finite.                              *)

\* ReadScanner is in its loop 'for scanner.Next() { scanner.Scan() }' and
\* scanner.Next() holds.
InScanLoop ==
    /\ asmEntry = "ReadScanner"
    /\ asmPc = "scan"
    /\ Deref(shapeScanner).err = <<>>

\* The bytes of the streams of the sub-scanners that are not yet read.
Unread ==
    (IF scanner # NilPtr THEN Len(r.data) - r.off ELSE 0)
    + (IF scannerDBF # NilPtr THEN Len(dbfR.data) - dbfR.off ELSE 0)
    + (IF scannerSHX # NilPtr THEN Len(shxR.data) - shxR.off ELSE 0)

\* C29: on every Scanner that NewScanner returns, with or without .shp,
\* .dbf and .shx readers, the loop of ReadScanner reaches a state where the
\* Scanner's error is set: a Scan in the loop sets the error (or panics), or
\* else it has read from a stream, which can happen only finitely often.
C29_ReadScannerTerminates ==
    [][InScanLoop =>
          \/ asmPc' = "done"
          \/ Deref(shapeScanner').err # <<>>
          \/ Unread' < Unread]_vars

\* C29 for the Scanners that have at least one sub-scanner.
TerminatesWithASubScanner ==
    [][(InScanLoop /\ (scanner # NilPtr \/ scannerDBF # NilPtr \/ scannerSHX # NilPtr)) =>
          \/ asmPc' = "done"
          \/ Deref(shapeScanner').err # <<>>
          \/ Unread' < Unread]_vars

\* A Scanner without sub-scanners has scanned without error as often as
\* this model counts, and the next Scan would again set no error.
ScansForEver ==
    /\ InScanLoop
    /\ scanner = NilPtr /\ scannerDBF = NilPtr /\ scannerSHX = NilPtr
    /\ Deref(shapeScanner).scanRecords = MaxCalls
    /\ Join(<<ScanSHP(r, scanner, options).err,
              ScanDBF(dbfR, scannerDBF, dbfHeader, fieldDescriptors, dbfOptions, decoder).err,
              ScanSHX(shxR, scannerSHX).err>>) = <<>>

---------------------------------------------------------------------------
(* The declared header size (specification SpecDBF).                       *)

\* ReadDBF returned a DBF.
ReadDBFSucceeded == dbfEntry = "ReadDBF" /\ dbfRet.dbf # NilPtr

\* C30: the header size of a DBF that ReadDBF returns is 32 bytes of header,
\* 32 bytes for each field descriptor and 1 byte of terminator, and with a
\* MaxHeaderSize in the options the bytes read before the first record are
\* no more than MaxHeaderSize.
C30_HeaderSizeAsRead ==
    ReadDBFSucceeded =>
        /\ Deref(dbfRet.dbf).DBFHeader.HeaderSize
               = dbfHeaderLength
                 + dbfFieldDescriptorSize * Len(Deref(dbfRet.dbf).FieldDescriptors) + 1
        /\ LimitDBF(dbfOptions, "MaxHeaderSize") # 0 =>
               StoredHeaderEnd <= LimitDBF(dbfOptions, "MaxHeaderSize")

\* C30 for the streams whose header declares the size that the header, the
\* descriptors and the terminator take.
HeaderSizeWhenDeclaredRight ==
    (ReadDBFSucceeded /\ dbfR.data[9] + 256 * dbfR.data[10] = StoredHeaderEnd) =>
        /\ Deref(dbfRet.dbf).DBFHeader.HeaderSize
               = dbfHeaderLength
                 + dbfFieldDescriptorSize * Len(Deref(dbfRet.dbf).FieldDescriptors) + 1
        /\ LimitDBF(dbfOptions, "MaxHeaderSize") # 0 =>
               StoredHeaderEnd <= LimitDBF(dbfOptions, "MaxHeaderSize")

====
